---------------------------- MODULE Spec2Model ----------------------------
(***************************************************************************)
(* A model of geo-db-updater: the timezone grid index (presortTimezones,   *)
(* findTimezone), the store-backed proximity lookup (findTimezoneInDb),    *)
(* the GeoNames reader (readGeoData) and the staged pipeline of the main   *)
(* IIFE (updatePrimaryTables, processAltNames, processPostalCodes,         *)
(* legacyItems, buildZoneLookup) writing to the relational store.          *)
(*                                                                         *)
(* Every coordinate is in hundredths of a degree: a grid cell is 1500 wide, *)
(* a turn is 36000, and the box half-widths 0.05, 0.1, 0.25, 0.5 of the    *)
(* proximity lookup are the integers 5, 10, 25, 50.                        *)
(***************************************************************************)
EXTENDS Integers, Sequences, FiniteSets, TLC

VARIABLES
    \* ---- timezone grid index (app.ts 70-140)
    features,       \* timezones.features handed to presortTimezones
    zoneGrid,       \* the pushes onto the cell lists zoneGrid[x][y], in order
    gridPc,         \* "init" | "ready" | "thrown"
    tzCall,         \* the last findTimezone call: [lat, lon, result, called]
    \* ---- findTimezoneInDb (app.ts 453-481)
    gazetteer,      \* the rows of table gazetteer, in id order
    dbCall,         \* the last findTimezoneInDb call
    \* ---- readGeoData (app.ts 163-280) and the tables of gazetteer.ts
    refs,           \* the lookup tables initGazetteer fills
    places,         \* const places: Location[]
    geoNamesLookup, \* the keys of geoNamesLookup
    stream,         \* every line read so far, with the level it was read at
    readLevel,      \* the level argument of the running readGeoData call
    \* ---- the main IIFE and its stages (app.ts 282-690)
    pc,             \* where the main IIFE stands
    doList,         \* the words of --do= (after 'std' is expanded)
    stage,          \* the running stage: its loop index, connection, errors
    run,            \* 1 for the first run of the program, 2 for a re-run
    env,            \* what this run meets: the shapes, the postal file,
                    \* the feed initGazetteer fails on, store errors left
    gazetteer_countries,    \* the rows of the other tables of the store
    gazetteer_admin,        \* gazetteer_admin[1], gazetteer_admin[2]
    gazetteer_alt_names,
    gazetteer_postal,
    wrote,          \* an INSERT was issued to the store in this run
    lastPostal,     \* what processPostalCodes did with its last line
    firstRun,       \* the store and the places as the first run left them
    \* ---- getPossiblyCachedFile (file-util.ts 40-166)
    disk,           \* the paths the call touches: file, file.tmp, unzipPath
                    \* and the member unzip extracts into cache/
    fetch,          \* the running call: where it stands, its locals, outcome
    \* ---- the name functions of gazetteer.ts (298-460)
    nameCall,       \* the last call of a name function: [fn, args, result]
    \* ---- the places loop of updatePrimaryTables over several runs (343-367)
    issued          \* the locations the loop has gone through, in order

gridVars == <<features, zoneGrid, gridPc, tzCall>>
dbVars == <<gazetteer, dbCall>>
readVars == <<refs, places, geoNamesLookup, stream, readLevel>>
storeVars == <<gazetteer_countries, gazetteer_admin, gazetteer_alt_names, gazetteer_postal>>
pipeVars == <<pc, doList, stage, run, env, gazetteer_countries, gazetteer_admin,
              gazetteer_alt_names, gazetteer_postal, wrote, lastPostal, firstRun>>
vars == <<features, zoneGrid, gridPc, tzCall, gazetteer, dbCall,
          refs, places, geoNamesLookup, stream, readLevel,
          pc, doList, stage, run, env, gazetteer_countries, gazetteer_admin,
          gazetteer_alt_names, gazetteer_postal, wrote, lastPostal, firstRun,
          disk, fetch, nameCall, issued>>
fileVars == <<disk, fetch>>
nameVars == <<nameCall>>
issuedVars == <<issued>>

NoTz == "none"      \* null / undefined / '' (every falsy timezone)
Undef == "undefined"    \* a column the query did not select, a key a map lacks

-----------------------------------------------------------------------------
(***************************************************************************)
(* Bounds of the model.                                                    *)
(***************************************************************************)
MaxShapes == 2      \* polygons in one feature collection
MaxDbRows == 3      \* stored places around the point of a proximity lookup
MaxLines == 3       \* lines read by the two readGeoData calls of a run
MaxPostal == 2      \* lines of the postal file
MaxStoreErrors == 1 \* store errors (rejected queries) met by one run
MaxRuns == 2        \* runs of the program against the same store

-----------------------------------------------------------------------------
(***************************************************************************)
(* Timezone polygons.  A polygon is a set of axis-aligned parts (a         *)
(* MultiPolygon); one that crosses the antimeridian comes as a part on     *)
(* each side of it, as GeoJSON writes it.                                  *)
(***************************************************************************)
Rect(lonA, latA, lonB, latB) ==
    [lonA |-> lonA, latA |-> latA, lonB |-> lonB, latB |-> latB]

ShapeCatalogue ==
    { [tzid |-> "America/Chicago",  parts |-> {Rect(-9000, 3000, -8500, 4500)}],
      [tzid |-> "Europe/London",    parts |-> {Rect(-1000, 5000, 1000, 6000)}],
      [tzid |-> "Pacific/Fiji",     parts |-> {Rect(-18000, -2000, -17500, -1500),
                                               Rect(17500, -2000, 18000, -1500)}],
      [tzid |-> "Asia/Anadyr",      parts |-> {Rect(-18000, 6000, -17000, 7000),
                                               Rect(16000, 6000, 17900, 7000)}],
      [tzid |-> "Arctic/Longyearbyen", parts |-> {Rect(1000, 7500, 3000, 9000)}] }

QueryLats == {-9000, -1700, 4185, 5500, 6500, 9000}
QueryLons == {-18000, -17800, -8765, 0, 500, 17800, 18000}

GridXs == 0 .. 23
GridYs == 0 .. 11

SetMin(S) == CHOOSE m \in S : \A n \in S : m <= n
SetMax(S) == CHOOSE m \in S : \A n \in S : m >= n

\* turf bbox: [minLon, minLat, maxLon, maxLat] over every coordinate
getBbox(shape) ==
    Rect(SetMin({p.lonA : p \in shape.parts}), SetMin({p.latA : p \in shape.parts}),
         SetMax({p.lonB : p \in shape.parts}), SetMax({p.latB : p \in shape.parts}))

\* turf booleanPointInPolygon (boundary included)
booleanPointInPolygon(lon, lat, shape) ==
    \E p \in shape.parts :
        /\ p.lonA <= lon /\ lon <= p.lonB
        /\ p.latA <= lat /\ lat <= p.latB

\* floor(v / 15) for v in degrees (\div rounds towards minus infinity)
Floor15(v) == v \div 1500

\* bbox normalisation of presortTimezones: lonA shifted when negative, lonB
\* raised by whole turns until it is not below lonA
NormLonA(bbox) == IF bbox.lonA < 0 THEN bbox.lonA + 36000 ELSE bbox.lonA

RECURSIVE RaiseLonB(_, _)
RaiseLonB(lonB, lonA) == IF lonB < lonA THEN RaiseLonB(lonB + 36000, lonA) ELSE lonB

\* the (x, y) pairs of the two nested loops, in loop order
RECURSIVE CellRun(_, _, _, _, _)
CellRun(x, y, xB, yA, yB) ==
    IF x > xB THEN <<>>
    ELSE IF y > yB THEN CellRun(x + 1, yA, xB, yA, yB)
    ELSE <<[x |-> x % 24, y |-> y]>> \o CellRun(x, y + 1, xB, yA, yB)

ShapeCells(shape) ==
    LET bbox == getBbox(shape)
        lonA == NormLonA(bbox)
        lonB == RaiseLonB(bbox.lonB, lonA)
    IN  CellRun(Floor15(lonA), Floor15(bbox.latA + 9000),
                Floor15(lonB), Floor15(bbox.latA + 9000), Floor15(bbox.latB + 9000))

\* zoneGrid[x % 24][y].push(shape) for each cell of the run; zoneGrid[x][12]
\* is undefined, so the push on it throws a TypeError and ends the forEach
RECURSIVE PushRun(_, _, _, _)
PushRun(grid, cells, i, shape) ==
    IF i > Len(cells) THEN [grid |-> grid, thrown |-> FALSE]
    ELSE IF cells[i].y \notin GridYs THEN [grid |-> grid, thrown |-> TRUE]
    ELSE PushRun(Append(grid, [x |-> cells[i].x, y |-> cells[i].y, shape |-> shape]),
                 cells, i + 1, shape)

RECURSIVE PresortFrom(_, _, _)
PresortFrom(grid, feats, i) ==
    IF i > Len(feats) THEN [grid |-> grid, thrown |-> FALSE]
    ELSE LET r == PushRun(grid, ShapeCells(feats[i]), 1, feats[i])
         IN  IF r.thrown THEN r ELSE PresortFrom(r.grid, feats, i + 1)

\* the 24 x 12 empty lists of lines 70-77: nothing pushed yet
EmptyGrid == <<>>

\* the list zoneGrid[x][y]: the shapes pushed onto cell (x, y), in push order
CellList(grid, x, y) ==
    LET hit == SelectSeq(grid, LAMBDA e : e.x = x /\ e.y = y)
    IN  [i \in 1 .. Len(hit) |-> hit[i].shape]

\* the candidates findTimezone scans: zoneGrid[x][y] ?? []
Candidates(grid, x, y) ==
    IF x \in GridXs /\ y \in GridYs THEN CellList(grid, x, y) ELSE <<>>

FirstHitAlt(cands, i, lon, lat) ==
    IF i > Len(cands) THEN NoTz ELSE cands[i].tzid

RECURSIVE FirstHit(_, _, _, _)
FirstHit(cands, i, lon, lat) ==
    IF i > Len(cands) THEN NoTz
    ELSE IF booleanPointInPolygon(lon, lat, cands[i]) THEN cands[i].tzid
    ELSE FirstHit(cands, i + 1, lon, lat)

findTimezone(grid, lat, lon) ==
    LET x == Floor15(lon % 36000)
        y == Floor15(lat + 9000)
    IN  FirstHit(Candidates(grid, x, y), 1, lon, lat)

SeqsUpTo(S, n) == UNION {[1 .. k -> S] : k \in 0 .. n}

NoCall == [lat |-> 0, lon |-> 0, result |-> NoTz, called |-> FALSE]

GridInit ==
    /\ features \in SeqsUpTo(ShapeCatalogue, MaxShapes)
    /\ zoneGrid = EmptyGrid
    /\ gridPc = "init"
    /\ tzCall = NoCall

\* presortTimezones(timezones), the whole forEach
PresortTimezones ==
    /\ gridPc = "init"
    /\ LET r == PresortFrom(zoneGrid, features, 1)
       IN  /\ zoneGrid' = r.grid
           /\ gridPc' = IF r.thrown THEN "thrown" ELSE "ready"
    /\ UNCHANGED <<features, tzCall>>

\* one call of findTimezone(lat, lon) after the index is built
FindTimezone ==
    /\ gridPc = "ready"
    /\ \E lat \in QueryLats, lon \in QueryLons :
           tzCall' = [lat |-> lat, lon |-> lon,
                      result |-> findTimezone(zoneGrid, lat, lon), called |-> TRUE]
    /\ UNCHANGED <<features, zoneGrid, gridPc>>

GridNext ==
    \/ PresortTimezones
    \/ FindTimezone

-----------------------------------------------------------------------------
(***************************************************************************)
(* The table gazetteer and findTimezoneInDb.                               *)
(***************************************************************************)
Place(id, name, admin1, country, lat, lon, tz, source, gid) ==
    [id |-> id, key_name |-> name, name |-> name, admin2 |-> "", admin1 |-> admin1,
     country |-> country, latitude |-> lat, longitude |-> lon, elevation |-> 0,
     population |-> 0, timezone |-> tz, rank |-> 1, feature_code |-> "P.PPL",
     source |-> source, geonames_id |-> gid]

\* stored places near the origin, as earlier runs may have left them
DbRowCatalogue ==
    { Place(0, "Alton",  "IL", "USA",   3,   0, "America/Chicago", "GEON", 11),
      Place(0, "Sarnia", "ON", "CAN",  -4,   2, "America/Chicago", "GEON", 12),
      Place(0, "Barry",  "IL", "USA",   8,   0, "America/Toronto", "GEON", 13),
      Place(0, "Casey",  "IL", "USA",  20, -20, "America/Chicago", "GEON", 14),
      Place(0, "Delhi",  "ON", "CAN",  40,  10, "America/Toronto", "GEON", 15),
      Place(0, "Elgin",  "IL", "USA",   0,  60, "America/Toronto", "GEON", 16),
      Place(0, "Fargo",  "IL", "USA",   4,   4, NoTz,              "GEON", 17) }

DbQueryPoints == { [lat |-> 0, lon |-> 0], [lat |-> 30, lon |-> 0] }

\* for (const span of [0.05, 0.1, 0.25, 0.5])
Spans == <<5, 10, 25, 50>>

InBox(r, lat, lon, span) ==
    /\ r.latitude >= lat - span /\ r.latitude <= lat + span
    /\ r.longitude >= lon - span /\ r.longitude <= lon + span

\* SELECT timezone FROM gazetteer WHERE latitude >= ? AND latitude <= ? AND
\* longitude >= ? AND longitude <= ?: the rows of the box, with the one
\* column the query selects; any other property of a result row is undefined
SelectTimezone(rows, lat, lon, span) ==
    LET hit == SelectSeq(rows, LAMBDA r : InBox(r, lat, lon, span))
    IN  [i \in 1 .. Len(hit) |-> [timezone |-> hit[i].timezone, country |-> Undef]]

\* a test that takes only undefined for missing
FalsyAlt(v) == v = Undef

Falsy(v) == v \in {NoTz, Undef, ""}

\* the inner loop over the results of one box; brk: break zoneLoop was taken
RECURSIVE ScanResultsAlt(_, _, _, _)
ScanResultsAlt(results, i, timezone, country) ==
    IF i > Len(results) THEN [timezone |-> timezone, brk |-> FALSE]
    ELSE IF Falsy(results[i].timezone)
         THEN ScanResultsAlt(results, i + 1, timezone, country)
    ELSE IF ~Falsy(timezone) /\ timezone # results[i].timezone
         THEN [timezone |-> timezone, brk |-> FALSE]
    ELSE IF ~Falsy(country) /\ country # results[i].country
         THEN [timezone |-> results[i].timezone, brk |-> FALSE]
    ELSE ScanResultsAlt(results, i + 1, results[i].timezone,
                        IF Falsy(country) THEN results[i].country ELSE country)

RECURSIVE ScanResults(_, _, _, _)
ScanResults(results, i, timezone, country) ==
    IF i > Len(results) THEN [timezone |-> timezone, brk |-> FALSE]
    ELSE IF Falsy(results[i].timezone)
         THEN ScanResults(results, i + 1, timezone, country)
    ELSE IF ~Falsy(timezone) /\ timezone # results[i].timezone
         THEN [timezone |-> timezone, brk |-> TRUE]
    ELSE IF ~Falsy(country) /\ country # results[i].country
         THEN [timezone |-> results[i].timezone, brk |-> TRUE]
    ELSE ScanResults(results, i + 1, results[i].timezone,
                     IF Falsy(country) THEN results[i].country ELSE country)

\* a lookup decided by the widest box alone
ZoneLoopAlt(rows, lat, lon, i, queried) ==
    LET s == ScanResults(SelectTimezone(rows, lat, lon, Spans[Len(Spans)]), 1, Undef, Undef)
    IN  IF s.brk \/ Falsy(s.timezone) THEN [timezone |-> NoTz, queried |-> Spans]
        ELSE [timezone |-> s.timezone, queried |-> Spans]

\* the labelled loop over the spans; queried: the spans a query was issued for
RECURSIVE ZoneLoop(_, _, _, _, _)
ZoneLoop(rows, lat, lon, i, queried) ==
    IF i > Len(Spans) THEN [timezone |-> NoTz, queried |-> queried]
    ELSE LET s == ScanResults(SelectTimezone(rows, lat, lon, Spans[i]), 1, Undef, Undef)
             q == Append(queried, Spans[i])
         IN  IF s.brk THEN [timezone |-> NoTz, queried |-> q]
             ELSE IF ~Falsy(s.timezone) THEN [timezone |-> s.timezone, queried |-> q]
             ELSE ZoneLoop(rows, lat, lon, i + 1, q)

findTimezoneInDb(rows, lat, lon) == ZoneLoop(rows, lat, lon, 1, <<>>)

NoDbCall == [lat |-> 0, lon |-> 0, timezone |-> NoTz, queried |-> <<>>, called |-> FALSE]

\* ids as the store's AUTO_INCREMENT gives them: 1, 2, ... in insertion order
WithIds(rows) == [i \in 1 .. Len(rows) |-> [rows[i] EXCEPT !.id = i]]

DbInit ==
    /\ \E rows \in SeqsUpTo(DbRowCatalogue, MaxDbRows) : gazetteer = WithIds(rows)
    /\ dbCall = NoDbCall

\* one call of findTimezoneInDb(connection, lat, lon)
FindTimezoneInDb ==
    /\ \E p \in DbQueryPoints :
           LET r == findTimezoneInDb(gazetteer, p.lat, p.lon)
           IN  dbCall' = [lat |-> p.lat, lon |-> p.lon, timezone |-> r.timezone,
                          queried |-> r.queried, called |-> TRUE]
    /\ UNCHANGED gazetteer

-----------------------------------------------------------------------------
(***************************************************************************)
(* Names.  A name is a string; what the regular expressions of the code    *)
(* see in it is given by the sets below.                                   *)
(***************************************************************************)
NamesWithComma == {"Pleasant, Mount"}               \* name.includes(',')
NamesWithBracket == {"Alton (historical)", "Troy/Ilion"}   \* /[/()[\]]/
NoiseNames == {"Alton (historical)", "Lot 12b"}     \* the four rejections of
                                                    \* processPlaceNames

\* makeKey: unidecode, upper case, [^A-Z\d]+ dropped, 40 characters kept
makeKey(name) ==
    CASE name = "Alton" -> "ALTON"
      [] name = "ALTON" -> "ALTON"
      [] name = "Troy/Ilion" -> "TROYILION"
      [] name = "Alton (historical)" -> "ALTONHISTORICAL"
      [] name = "Pleasant, Mount" -> "PLEASANTMOUNT"
      [] name = "Lot 12b" -> "LOT12B"
      [] name = "Mount Hood" -> "MOUNTHOOD"
      [] name = "Sarnia" -> "SARNIA"
      [] name = "Barry" -> "BARRY"
      [] name = "BARRY" -> "BARRY"
      [] name = "Ottawa" -> "OTTAWA"
      [] name = "Elgin" -> "ELGIN"
      [] name = "Casey" -> "CASEY"
      [] name = "Upper Alton" -> "UPPERALTON"
      [] name = "Estados Unidos" -> "ESTADOSUNIDOS"
      [] name = "United States" -> "UNITEDSTATES"
      [] name = "Canada" -> "CANADA"
      [] name = "Zone 4" -> "ZONE4"
      [] OTHER -> name

-----------------------------------------------------------------------------
(***************************************************************************)
(* The reference tables of gazetteer.ts, as initGazetteer fills them from  *)
(* countryInfo.txt, admin1CodesASCII.txt and admin2Codes.txt.              *)
(***************************************************************************)
Lookup(map, k) == IF k \in DOMAIN map THEN map[k] ELSE Undef

EmptyMap == [k \in {} |-> Undef]

CountryInfo ==
    << [iso2 |-> "US", iso3 |-> "USA", name |-> "United States", geonames_id |-> 6252001],
       [iso2 |-> "CA", iso3 |-> "CAN", name |-> "Canada", geonames_id |-> 6251999] >>

\* code0 is cc \o tail: code0.substr(0, 2) and code0.substr(2)
Admin1Info ==
    << [cc |-> "US", tail |-> ".IL", code |-> "IL", name |-> "Illinois",
        geonames_id |-> 4896861] >>

Admin2Info ==
    << [cc |-> "US", tail |-> ".IL.119", code |-> "119", name |-> "Madison County",
        geonames_id |-> 4243899] >>

\* simplify(name).substr(0, 20) of the country names of CountryInfo
SimplifiedCountry(name) ==
    CASE name = "United States" -> "UNITEDSTATES"
      [] name = "Canada" -> "CANADA"
      [] OTHER -> name

\* String(code2ToCode3[code0.substr(0, 2)]) as the + of lines 218 and 236 gives it
Code3Text(map, cc) == IF cc \in DOMAIN map THEN map[cc] ELSE "undefined"

EmptyRefs ==
    [code2ToCode3 |-> EmptyMap, code3ToCode2 |-> EmptyMap, code3ToName |-> EmptyMap,
     nameToCode3 |-> EmptyMap, countries |-> <<>>, admin1s |-> <<>>, admin2s |-> <<>>,
     states |-> EmptyMap, counties |-> EmptyMap]

Range(f) == {f[i] : i \in DOMAIN f}

\* the values of the maps admin1s and admin2s (lines 213-245)
AdminRows(info) ==
    [i \in DOMAIN info |->
        [name |-> info[i].name,
         key_name |-> Code3Text([c \in {r.iso2 : r \in Range(CountryInfo)} |->
                                   (CHOOSE r \in Range(CountryInfo) : r.iso2 = c).iso3],
                                info[i].cc) \o info[i].tail,
         code |-> info[i].code, geonames_id |-> info[i].geonames_id, source |-> "GEON"]]

\* states[code0] = name and counties[code0] = name (lines 221, 239)
CodeNames(info) ==
    [k \in {info[i].cc \o info[i].tail : i \in DOMAIN info} |->
        (CHOOSE row \in Range(info) : row.cc \o row.tail = k).name]

\* the tables after the three forEach loops of initGazetteer have run
LoadedRefs ==
    [code2ToCode3 |-> [c \in {r.iso2 : r \in Range(CountryInfo)} |->
                          (CHOOSE r \in Range(CountryInfo) : r.iso2 = c).iso3],
     code3ToCode2 |-> [c \in {r.iso3 : r \in Range(CountryInfo)} |->
                          (CHOOSE r \in Range(CountryInfo) : r.iso3 = c).iso2],
     code3ToName |-> [c \in {r.iso3 : r \in Range(CountryInfo)} |->
                          (CHOOSE r \in Range(CountryInfo) : r.iso3 = c).name],
     nameToCode3 |-> [n \in {SimplifiedCountry(r.name) : r \in Range(CountryInfo)} |->
                          (CHOOSE r \in Range(CountryInfo) : SimplifiedCountry(r.name) = n).iso3],
     countries |-> [i \in DOMAIN CountryInfo |->
                       [name |-> CountryInfo[i].name, key_name |-> makeKey(CountryInfo[i].name),
                        iso2 |-> CountryInfo[i].iso2, iso3 |-> CountryInfo[i].iso3,
                        geonames_id |-> CountryInfo[i].geonames_id, source |-> "GEON"]],
     admin1s |-> AdminRows(Admin1Info), admin2s |-> AdminRows(Admin2Info),
     states |-> CodeNames(Admin1Info), counties |-> CodeNames(Admin2Info)]

\* the feeds initGazetteer reads, in its order; a feed it cannot read ends it
\* (the catch of line 255 only logs), and what it had filled stays filled
InitFeeds == <<"country-info", "state-info", "us_counties">>

RefsAfter(failed) ==
    CASE failed = "country-info" -> EmptyRefs
      [] failed = "state-info" -> [LoadedRefs EXCEPT !.admin1s = <<>>, !.admin2s = <<>>,
                                                      !.states = EmptyMap,
                                                      !.counties = EmptyMap]
      [] OTHER -> LoadedRefs

\* country.replace(/^(.{0,2}).*$/, '$1'): the first two characters
First2(c) ==
    CASE c = "XXX" -> "XX"
      [] OTHER -> c

\* processPlaceNames, lines 495-551: the country it returns
ResolveCountry(country, r) ==
    LET c1 == IF country \in DOMAIN r.code2ToCode3 THEN r.code2ToCode3[country]
              ELSE country
        code3 == IF Lookup(r.nameToCode3, c1) # Undef THEN Lookup(r.nameToCode3, c1)
                 ELSE Lookup(r.code2ToCode3, c1)
    IN  IF code3 # Undef THEN code3
        ELSE IF Lookup(r.code3ToName, c1) # Undef THEN c1
        ELSE First2(c1) \o "?"

\* /^\d+$/.test(code)
NumericCodes == {"08", "11", "75", "99", "112", "119"}

\* code2 after lines 497-500
Code2Of(country, r) ==
    IF country \in DOMAIN r.code2ToCode3 THEN country
    ELSE IF country \in DOMAIN r.code3ToCode2 THEN r.code3ToCode2[country]
    ELSE country

\* lines 502-507: state after the look-up of code2.state
ResolveState(state, code2, r) ==
    IF state \in NumericCodes /\ Lookup(r.states, code2 \o "." \o state) # Undef
    THEN Lookup(r.states, code2 \o "." \o state)
    ELSE state

\* lines 509-514: county after the look-up of code2.state.county, where
\* state is what line 506 has left in it
ResolveCounty(county, state, code2, r) ==
    IF /\ ~Falsy(state)
       /\ county \in NumericCodes
       /\ Lookup(r.counties, code2 \o "." \o state \o "." \o county) # Undef
    THEN Lookup(r.counties, code2 \o "." \o state \o "." \o county)
    ELSE county

Null == [null |-> TRUE]

\* a TypeError: a method called on undefined
Thrown == [thrown |-> "TypeError"]

\* countyStateCleanUp(s): s.replace(...) on an undefined s throws;
\* getCode3ForCountry(country): simplify returns an undefined argument as it
\* is and .substr on it throws
ArgThrows(county, state, country) == Undef \in {state, county, country}

\* processPlaceNames(city, county, state, country): null for a rejected name.
\* The four rejections come first; countyStateCleanUp(state),
\* countyStateCleanUp(county) and getCode3ForCountry(country) follow.
processPlaceNames(city, county, state, country, r) ==
    IF city \in NoiseNames THEN Null
    ELSE IF ArgThrows(county, state, country) THEN Thrown
    ELSE [city |-> city,
          county |-> ResolveCounty(county, ResolveState(state, Code2Of(country, r), r),
                                   Code2Of(country, r), r),
          state |-> ResolveState(state, Code2Of(country, r), r),
          country |-> ResolveCountry(country, r)]

-----------------------------------------------------------------------------
(***************************************************************************)
(* readGeoData: one line of the file.                                      *)
(***************************************************************************)
GeoLine(id, name, class, code, cc, a1, pop, elev, tz, lat, lon) ==
    [geonames_id |-> id, name |-> name, featureClass |-> class, featureCode |-> code,
     countryCode |-> cc, admin1 |-> a1, admin2 |-> "", population |-> pop,
     elevation |-> elev, timezone |-> tz, latitude |-> lat, longitude |-> lon]

\* a line of eight columns, cut after featureCode: the destructuring of
\* line 181 leaves countryCode, admin1, admin2 and timezone undefined
ShortLine(l) ==
    [l EXCEPT !.countryCode = Undef, !.admin1 = Undef, !.admin2 = Undef, !.timezone = Undef]

\* /[PT]/i.test(featureClass)
HasPT(class) == class \in {"P", "T", "p", "t"}

\* /^(ATOL|CAPE|ISL|ISLET|MT|PK|PT|VLC)$/i.test(featureCode)
TerrainCodes == {"ATOL", "CAPE", "ISL", "ISLET", "MT", "PK", "PT", "VLC"}

\* /PPLA|PPLA2|PPLA3|PPLC|PPLG/i.test(s)
CapitalCodes == {"PPLA", "PPLA2", "PPLA3", "PPLC", "PPLG"}

\* the condition of the continue at lines 223-230.  The test of the admin
\* capital codes reads featureClass, which is "P" there, so it never holds;
\* the test of line 229 for 'Hill 12' and the like reads featureCode, which
\* is one of TerrainCodes there, so it never holds either.
FilteredAlt(l, level, seen) ==
    \/ l.name = ""
    \/ l.name \in NamesWithComma
    \/ l.admin1 = "0Z"
    \/ ~HasPT(l.featureClass)
    \/ (l.featureClass = "P" /\ ~(l.population > 1000 \/ l.featureClass \in CapitalCodes))
    \/ (l.featureClass = "P" /\ level > 0 /\ l.name \in NamesWithBracket)
    \/ (l.featureClass = "T" /\ l.featureCode \notin TerrainCodes)
    \/ (l.featureClass = "T" /\ l.elevation < 600 /\ l.featureCode \in {"MT", "PK"})

Filtered(l, level, seen) ==
    \/ l.name = ""
    \/ l.name \in NamesWithComma
    \/ l.geonames_id \in seen
    \/ l.admin1 = "0Z"
    \/ ~HasPT(l.featureClass)
    \/ (l.featureClass = "P" /\ ~(l.population > 1000 \/ l.featureClass \in CapitalCodes))
    \/ (l.featureClass = "P" /\ level > 0 /\ l.name \in NamesWithBracket)
    \/ (l.featureClass = "T" /\ l.featureCode \notin TerrainCodes)
    \/ (l.featureClass = "T" /\ l.elevation < 600 /\ l.featureCode \in {"MT", "PK"})

\* a rank whose steps are taken for every feature class
RankAlt(l, level) ==
    LET base == IF l.featureClass = "T" THEN 0 ELSE IF level = 0 THEN 2 ELSE 1
        code == l.featureClass \o "." \o l.featureCode
        step == IF code = "P.PPLC" THEN 2
                ELSE IF code = "P.PPLA" THEN 1
                ELSE IF l.population = 0 THEN -1 ELSE 0
        big == IF l.population >= 1000000 \/ (code = "P.PPLC" /\ l.population > 500000)
               THEN 1 ELSE 0
    IN  base + step + big

\* lines 235-248
Rank(l, level) ==
    LET base == IF l.featureClass = "T" THEN 0 ELSE IF level = 0 THEN 2 ELSE 1
        code == l.featureClass \o "." \o l.featureCode
        step == IF code = "P.PPLC" THEN 2
                ELSE IF code = "P.PPLA" THEN 1
                ELSE IF l.population = 0 THEN -1 ELSE 0
        big == IF l.population >= 1000000 \/ (code = "P.PPLC" /\ l.population > 500000)
               THEN 1 ELSE 0
    IN  IF l.featureClass = "P" THEN base + step + big ELSE base

\* a location whose missing timezone is looked up among the stored places
LocationAlt(l, level, p, grid) ==
    [name |-> p.city, key_name |-> makeKey(l.name), geonames_id |-> l.geonames_id,
     source |-> "GEON", admin2 |-> l.admin2, admin1 |-> l.admin1, country |-> p.country,
     latitude |-> l.latitude, longitude |-> l.longitude, elevation |-> l.elevation,
     population |-> l.population,
     timezone |-> IF ~Falsy(l.timezone) THEN l.timezone
                  ELSE findTimezoneInDb(gazetteer, l.latitude, l.longitude).timezone,
     feature_code |-> l.featureClass \o "." \o l.featureCode, rank |-> Rank(l, level)]

\* the location object of lines 250-268
Location(l, level, p, grid) ==
    [name |-> p.city, key_name |-> makeKey(l.name), geonames_id |-> l.geonames_id,
     source |-> "GEON", admin2 |-> l.admin2, admin1 |-> l.admin1, country |-> p.country,
     latitude |-> l.latitude, longitude |-> l.longitude, elevation |-> l.elevation,
     population |-> l.population,
     timezone |-> IF ~Falsy(l.timezone) THEN l.timezone
                  ELSE findTimezone(grid, l.latitude, l.longitude),
     feature_code |-> l.featureClass \o "." \o l.featureCode, rank |-> Rank(l, level)]

\* whether the line ends as an entry of places
Accepted(l, level, seen, r) ==
    /\ ~Filtered(l, level, seen)
    /\ processPlaceNames(l.name, l.admin2, l.admin1, l.countryCode, r) \notin {Null, Thrown}

\* whether the call of processPlaceNames for the line throws
Throws(l, level, seen, r) ==
    /\ ~Filtered(l, level, seen)
    /\ processPlaceNames(l.name, l.admin2, l.admin1, l.countryCode, r) = Thrown

\* the body of the for await loop for one line; threw: the exception left
\* readGeoData, which has no try
ReadLine(l, level) ==
    /\ stream' = Append(stream, [line |-> l, level |-> level,
                                  threw |-> Throws(l, level, geoNamesLookup, refs)])
    /\ IF Accepted(l, level, geoNamesLookup, refs)
       THEN LET p == processPlaceNames(l.name, l.admin2, l.admin1, l.countryCode, refs)
            IN  /\ places' = Append(places, Location(l, level, p, zoneGrid))
                /\ geoNamesLookup' = geoNamesLookup \cup {l.geonames_id}
       ELSE UNCHANGED <<places, geoNamesLookup>>

GeoLines ==
    { GeoLine(1, "Alton", "P", "PPL", "US", "IL", 30000, 130, "America/Chicago", 3889, -9018),
      GeoLine(1, "Alton", "P", "PPL", "US", "IL", 900, 130, "America/Chicago", 3889, -9018),
      GeoLine(1, "ALTON", "P", "PPLA", "US", "IL", 31000, 131, "", 3890, -9018),
      GeoLine(2, "Troy/Ilion", "P", "PPL", "US", "IL", 5000, 100, "", 4185, -8765),
      GeoLine(3, "Mount Hood", "T", "MT", "US", "OR", 0, 3400, "", 4537, -12170),
      GeoLine(3, "Mount Hood", "T", "MT", "US", "OR", 0, 500, "", 4537, -12170),
      GeoLine(4, "Alton (historical)", "P", "PPL", "US", "IL", 2000, 0, "", 3889, -9018),
      GeoLine(5, "Ottawa", "P", "PPLC", "XX", "08", 900000, 70, "America/Toronto", 4541, -7570),
      GeoLine(8, "Chicago", "P", "PPL", "US", "IL", 2700000, 180, "America/Chicago", 4185, -8765),
      GeoLine(9, "Vandalia", "P", "PPLA2", "US", "IL", 800, 160, "America/Chicago", 3896, -8909),
      ShortLine(GeoLine(6, "Hat Island", "T", "ISL", "", "", 0, 0, "", 4800, -12230)) }

\* readGeoData rejected: an exception left its loop
ReadThrew == \E k \in DOMAIN stream : stream[k].threw

ChicagoOnly ==
    << [tzid |-> "America/Chicago", parts |-> {Rect(-9000, 3000, -8500, 4500)}] >>

ReadInit ==
    /\ refs = LoadedRefs
    /\ places = <<>>
    /\ geoNamesLookup = {}
    /\ stream = <<>>
    /\ readLevel = 0
    /\ features \in {<<>>, ChicagoOnly}
    /\ zoneGrid = PresortFrom(EmptyGrid, features, 1).grid
    /\ gridPc = "ready"
    /\ tzCall = NoCall

\* one line of the file the running readGeoData call reads
ReadGeoLine ==
    /\ ~ReadThrew
    /\ Len(stream) < MaxLines
    /\ \E l \in GeoLines : ReadLine(l, readLevel)
    /\ UNCHANGED <<refs, readLevel>>

\* readGeoData(CITIES_15000_TEXT_FILE) returns; readGeoData(ALL_COUNTRIES_TEXT_FILE, 1)
NextFile ==
    /\ ~ReadThrew
    /\ readLevel = 0
    /\ readLevel' = 1
    /\ UNCHANGED <<refs, places, geoNamesLookup, stream>>

-----------------------------------------------------------------------------
(***************************************************************************)
(* The store.  A table is the sequence of its rows in id order; the id of  *)
(* a new row is the next AUTO_INCREMENT value.  The schema is not part of  *)
(* the sources: the unique key of each table is taken from the written     *)
(* description (the external id per source, where there is one) and from   *)
(* the columns the ON DUPLICATE KEY UPDATE clause leaves alone.            *)
(***************************************************************************)
NextId(tbl) == Len(tbl) + 1

Ids(tbl) == {tbl[i].id : i \in DOMAIN tbl}

\* the rows the statement finds by the unique key of gazetteer
SamePlace(row, loc) ==
    loc.geonames_id # 0 /\ row.geonames_id = loc.geonames_id /\ row.source = loc.source

PlaceRow(loc, id) ==
    [id |-> id, key_name |-> loc.key_name, name |-> loc.name, admin2 |-> loc.admin2,
     admin1 |-> loc.admin1, country |-> loc.country, latitude |-> loc.latitude,
     longitude |-> loc.longitude, elevation |-> loc.elevation,
     population |-> loc.population, timezone |-> loc.timezone, rank |-> loc.rank,
     feature_code |-> loc.feature_code, source |-> loc.source,
     geonames_id |-> loc.geonames_id]

\* a statement that removes the row it found and inserts the new one (REPLACE)
UpsertPlaceAlt(tbl, loc) ==
    LET hit == {i \in DOMAIN tbl : SamePlace(tbl[i], loc)}
        kept == SelectSeq(tbl, LAMBDA row : ~SamePlace(row, loc))
    IN  IF hit = {} THEN Append(tbl, PlaceRow(loc, NextId(tbl)))
        ELSE Append(kept, PlaceRow(loc, NextId(tbl)))

\* INSERT INTO gazetteer ... ON DUPLICATE KEY UPDATE latitude = ?, ... (344-349)
UpsertPlace(tbl, loc) ==
    LET hit == {i \in DOMAIN tbl : SamePlace(tbl[i], loc)}
    IN  IF hit = {} THEN Append(tbl, PlaceRow(loc, NextId(tbl)))
        ELSE [tbl EXCEPT ![SetMin(hit)] =
                 [@ EXCEPT !.latitude = loc.latitude, !.longitude = loc.longitude,
                           !.elevation = loc.elevation, !.population = loc.population,
                           !.timezone = loc.timezone, !.rank = loc.rank,
                           !.source = loc.source, !.geonames_id = loc.geonames_id]]

\* INSERT INTO gazetteer_countries ... ON DUPLICATE KEY UPDATE ... (293-296)
UpsertCountry(tbl, loc) ==
    LET hit == {i \in DOMAIN tbl : tbl[i].iso3 = loc.iso3}
    IN  IF hit = {}
        THEN Append(tbl, [id |-> NextId(tbl), name |-> loc.name, key_name |-> loc.key_name,
                          iso2 |-> loc.iso2, iso3 |-> loc.iso3,
                          geonames_id |-> loc.geonames_id, source |-> loc.source])
        ELSE [tbl EXCEPT ![SetMin(hit)] =
                 [@ EXCEPT !.name = loc.name, !.key_name = loc.key_name, !.iso2 = loc.iso2,
                           !.geonames_id = loc.geonames_id, !.source = loc.source]]

\* INSERT INTO gazetteer_admin${i} ... ON DUPLICATE KEY UPDATE ... (320-322)
UpsertAdmin(tbl, loc) ==
    LET hit == {i \in DOMAIN tbl : tbl[i].key_name = loc.key_name}
    IN  IF hit = {}
        THEN Append(tbl, [id |-> NextId(tbl), name |-> loc.name, key_name |-> loc.key_name,
                          code |-> loc.code, geonames_id |-> loc.geonames_id,
                          source |-> loc.source])
        ELSE [tbl EXCEPT ![SetMin(hit)] =
                 [@ EXCEPT !.name = loc.name, !.code = loc.code,
                           !.geonames_id = loc.geonames_id, !.source = loc.source]]

\* INSERT INTO gazetteer_alt_names ... ON DUPLICATE KEY UPDATE ... (430-434)
UpsertAltName(tbl, a) ==
    LET hit == {i \in DOMAIN tbl : /\ tbl[i].key_name = a.key_name /\ tbl[i].lang = a.lang
                                   /\ tbl[i].type = a.type
                                   /\ tbl[i].gazetteer_id = a.gazetteer_id}
    IN  IF hit = {}
        THEN Append(tbl, [id |-> NextId(tbl), name |-> a.name, lang |-> a.lang,
                          key_name |-> a.key_name, geonames_alt_id |-> a.geonames_alt_id,
                          geonames_orig_id |-> a.geonames_orig_id,
                          gazetteer_id |-> a.gazetteer_id, type |-> a.type,
                          source |-> a.source])
        ELSE [tbl EXCEPT ![SetMin(hit)] =
                 [@ EXCEPT !.name = a.name, !.geonames_alt_id = a.geonames_alt_id,
                           !.geonames_orig_id = a.geonames_orig_id, !.source = a.source]]

\* INSERT INTO gazetteer_postal ... ON DUPLICATE KEY UPDATE ... (563-568)
UpsertPostal(tbl, z) ==
    LET hit == {i \in DOMAIN tbl : tbl[i].country = z.country /\ tbl[i].code = z.code}
    IN  IF hit = {}
        THEN Append(tbl, [id |-> NextId(tbl), country |-> z.country, code |-> z.code,
                          name |-> z.name, admin1 |-> z.admin1, latitude |-> z.latitude,
                          longitude |-> z.longitude, accuracy |-> z.accuracy,
                          timezone |-> z.timezone, geonames_id |-> z.geonames_id,
                          gazetteer_id |-> z.gazetteer_id, source |-> z.source])
        ELSE [tbl EXCEPT ![SetMin(hit)] =
                 [@ EXCEPT !.name = z.name, !.latitude = z.latitude,
                           !.longitude = z.longitude, !.accuracy = z.accuracy,
                           !.timezone = z.timezone, !.geonames_id = z.geonames_id,
                           !.gazetteer_id = z.gazetteer_id, !.source = z.source]]

-----------------------------------------------------------------------------
(***************************************************************************)
(* The files a run reads.                                                  *)
(***************************************************************************)
Cities15000File ==
    << GeoLine(1, "Alton", "P", "PPL", "US", "IL", 30000, 130, "America/Chicago", 3889, -9018) >>

AllCountriesFile ==
    << GeoLine(1, "Alton", "P", "PPL", "US", "IL", 30000, 130, "America/Chicago", 3889, -9018),
       GeoLine(7, "Elgin", "P", "PPL", "US", "IL", 5000, 200, "", 4185, -8765) >>

\* alternateNames.txt: alternate id, id of the named entity, language, name
AltNamesFile ==
    << [geonames_alt_id |-> 101, geonames_orig_id |-> 1, lang |-> "en", name |-> "Upper Alton"],
       [geonames_alt_id |-> 102, geonames_orig_id |-> 6252001, lang |-> "es",
        name |-> "Estados Unidos"],
       [geonames_alt_id |-> 103, geonames_orig_id |-> 1, lang |-> "en", name |-> "Alton"],
       [geonames_alt_id |-> 104, geonames_orig_id |-> 1, lang |-> "en", name |-> "ALTON"] >>

PostalLine(country, code, name, admin1, lat, lon, accuracy) ==
    [country |-> country, code |-> code, name |-> name, admin1 |-> admin1,
     latitude |-> lat, longitude |-> lon, accuracy |-> accuracy]

PostalCatalogue ==
    { PostalLine("US", "62010", "BARRY", "IL", 3930, -9018, 4),
      PostalLine("US", "62099", "Casey", "IL", 3975, -9018, 4),
      PostalLine("XX", "62024", "Elgin", "IL", 4185, -8765, 6) }

\* a code whose place name is an alternate name of Alton
AltNamedLine == PostalLine("US", "62002", "Upper Alton", "IL", 3891, -9017, 4)

\* the postal files: lines of the catalogue, each code once, in any order,
\* and the file of the code with the alternate name
PostalFiles ==
    {f \in SeqsUpTo(PostalCatalogue, MaxPostal) :
        \A i, j \in DOMAIN f : i # j => f[i] # f[j]}
    \cup {<<AltNamedLine>>}

EtcShape == [tzid |-> "Etc/GMT+6", parts |-> {Rect(-9750, 0, -8250, 9000)}]

\* shape.properties.tzid.startsWith('Etc/')
IsEtc(tzid) == tzid \in {"Etc/GMT+6"}

\* what getTimezoneShapes returns
ShapeFiles == { ChicagoOnly, ChicagoOnly \o <<EtcShape>> }

-----------------------------------------------------------------------------
(***************************************************************************)
(* processAltNames and processPostalCodes: one line of the file.           *)
(***************************************************************************)
Abs(v) == IF v < 0 THEN 0 - v ELSE v

\* the default collation of the store compares names without case
LowerCase(n) ==
    CASE n = "ALTON" -> "alton"
      [] n = "Alton" -> "alton"
      [] n = "BARRY" -> "barry"
      [] n = "Barry" -> "barry"
      [] OTHER -> n

NameLike(stored, pattern) == LowerCase(stored) = LowerCase(pattern)

isAllUppercaseWords(n) == n \in {"ALTON", "BARRY"}

toTitleCase(n) ==
    CASE n = "ALTON" -> "Alton"
      [] n = "BARRY" -> "Barry"
      [] OTHER -> n

\* POSTAL_JUNK.test(name)
PostalJunk == {"Zone 4"}

\* convertPostalAdmin1 is imported from a module that is not among the
\* sources; the codes of the catalogue are taken to be GeoNames codes already
convertPostalAdmin1(country, admin1) == admin1

\* idMap[i].get(geonames_orig_id): Map.set keeps the last row of an id
IdMapGet(tbl, gid) ==
    LET hit == {i \in DOMAIN tbl : tbl[i].geonames_id = gid}
    IN  IF hit = {} THEN Null ELSE tbl[SetMax(hit)]

\* a probe that goes from the places to the countries
ProcessAltNameAlt(a, cs, a1, a2, gaz) ==
    LET key_name == makeKey(a.name)
        tables == IF key_name # "" /\ Len(a.lang) < 3 THEN <<gaz, a2, a1, cs>> ELSE <<>>
        found == {i \in DOMAIN tables : IdMapGet(tables[i], a.geonames_orig_id) # Null}
        i0 == IF found = {} THEN 0 ELSE SetMin(found)
        match == IF i0 = 0 THEN Null ELSE IdMapGet(tables[i0], a.geonames_orig_id)
        type == IF i0 = 0 THEN "" ELSE <<"P", "2", "1", "C">>[i0]
        gazetteer_id == IF i0 = 0 THEN 0 ELSE match.id
        origName == IF i0 = 0 THEN "" ELSE match.name
    IN  [writes |-> type # "" /\ gazetteer_id # 0 /\ origName # a.name,
         row |-> [name |-> a.name, lang |-> a.lang, key_name |-> key_name,
                  geonames_alt_id |-> a.geonames_alt_id,
                  geonames_orig_id |-> a.geonames_orig_id,
                  gazetteer_id |-> gazetteer_id, type |-> type, source |-> "GEON"]]

\* lines 390-440 for one line of the alternate names
ProcessAltName(a, cs, a1, a2, gaz) ==
    LET key_name == makeKey(a.name)
        tables == IF key_name # "" /\ Len(a.lang) < 3 THEN <<cs, a1, a2, gaz>> ELSE <<>>
        found == {i \in DOMAIN tables : IdMapGet(tables[i], a.geonames_orig_id) # Null}
        i0 == IF found = {} THEN 0 ELSE SetMin(found)
        match == IF i0 = 0 THEN Null ELSE IdMapGet(tables[i0], a.geonames_orig_id)
        type == IF i0 = 0 THEN "" ELSE <<"C", "1", "2", "P">>[i0]
        gazetteer_id == IF i0 = 0 THEN 0 ELSE match.id
        origName == IF i0 = 0 THEN "" ELSE match.name
    IN  [writes |-> type # "" /\ gazetteer_id # 0 /\ origName # a.name,
         row |-> [name |-> a.name, lang |-> a.lang, key_name |-> key_name,
                  geonames_alt_id |-> a.geonames_alt_id,
                  geonames_orig_id |-> a.geonames_orig_id,
                  gazetteer_id |-> gazetteer_id, type |-> type, source |-> "GEON"]]

\* lines 493-515: the two SELECTs on gazetteer.  Rows come in id order.
PostalMatch(z, gaz, alts, r) ==
    LET iso3 == Lookup(r.code2ToCode3, z.country)
        admin1 == convertPostalAdmin1(z.country, z.admin1)
        Home(row) == /\ iso3 # Undef     \* country = NULL matches no row
                     /\ row.country = iso3
                     /\ row.admin1 = admin1
                     /\ Abs(z.latitude - row.latitude) < 25
                     /\ Abs(z.longitude - row.longitude) < 25
        origIds == {b.geonames_orig_id : b \in {c \in Range(alts) : NameLike(c.name, z.name)}}
    IN  [iso3 |-> iso3, admin1 |-> admin1,
         byName |-> SelectSeq(gaz, LAMBDA row : NameLike(row.name, z.name) /\ Home(row)),
         byAlt |-> SelectSeq(gaz, LAMBDA row : row.geonames_id \in origIds /\ Home(row))]

\* lines 508-534: what the record takes from the first row of the result.
\* The first SELECT does not list the column name: loc.name is undefined.
PostalHit(z, m) ==
    LET result == IF m.byName = <<>> THEN m.byAlt ELSE m.byName
    IN  IF result = <<>>
        THEN [found |-> FALSE, alreadyCopied |-> FALSE, geonames_id |-> 0,
              gazetteer_id |-> 0, timezone |-> "", latitude |-> z.latitude,
              longitude |-> z.longitude]
        ELSE [found |-> TRUE,
              alreadyCopied |->
                  /\ m.byName # <<>>
                  /\ \E i \in DOMAIN m.byName :
                         /\ Undef = z.name
                         /\ m.byName[i].source = "GEOZ"
                         /\ m.byName[i].geonames_id = 0,
              geonames_id |-> result[1].geonames_id,
              gazetteer_id |-> result[1].id,
              timezone |-> result[1].timezone,
              latitude |-> IF z.accuracy < 4 THEN result[1].latitude ELSE z.latitude,
              longitude |-> IF z.accuracy < 4 THEN result[1].longitude ELSE z.longitude]

\* the two lookups in the other order
PostalZoneAlt(h, gaz, grid) ==
    LET inDb == findTimezoneInDb(gaz, h.latitude, h.longitude).timezone
        inGrid == findTimezone(grid, h.latitude, h.longitude)
    IN  IF ~Falsy(h.timezone) THEN [timezone |-> h.timezone, lookups |-> <<>>]
        ELSE IF ~Falsy(inGrid)
        THEN [timezone |-> inGrid,
              lookups |-> <<[by |-> "findTimezone", timezone |-> inGrid]>>]
        ELSE [timezone |-> inDb,
              lookups |-> <<[by |-> "findTimezone", timezone |-> inGrid],
                            [by |-> "findTimezoneInDb", timezone |-> inDb]>>]

\* lines 536-540: findTimezoneInDb, then findTimezone, each only if the
\* timezone is still missing
PostalZone(h, gaz, grid) ==
    LET inDb == findTimezoneInDb(gaz, h.latitude, h.longitude).timezone
        inGrid == findTimezone(grid, h.latitude, h.longitude)
    IN  IF ~Falsy(h.timezone) THEN [timezone |-> h.timezone, lookups |-> <<>>]
        ELSE IF ~Falsy(inDb)
        THEN [timezone |-> inDb,
              lookups |-> <<[by |-> "findTimezoneInDb", timezone |-> inDb]>>]
        ELSE [timezone |-> inGrid,
              lookups |-> <<[by |-> "findTimezoneInDb", timezone |-> inDb],
                            [by |-> "findTimezone", timezone |-> inGrid]>>]

\* lines 542-573: the INSERT IGNORE of a place for the code, then the row
PostalWrite(z, m, h, t, gaz) ==
    LET writes == ~Falsy(t.timezone) /\ z.name \notin PostalJunk
        copies == writes /\ ~h.alreadyCopied /\ h.geonames_id = 0 /\ h.gazetteer_id = 0
        synthetic == [key_name |-> makeKey(z.name),
                      name |-> IF isAllUppercaseWords(z.name) THEN toTitleCase(z.name)
                               ELSE z.name,
                      admin2 |-> "", admin1 |-> m.admin1, country |-> m.iso3,
                      latitude |-> h.latitude, longitude |-> h.longitude,
                      elevation |-> 0, population |-> 0, timezone |-> t.timezone,
                      rank |-> 1, feature_code |-> "P.PPL", source |-> "GEOZ",
                      geonames_id |-> 0]
        inserts == copies /\ ~\E i \in DOMAIN gaz : SamePlace(gaz[i], synthetic)
    IN  [gaz |-> IF inserts THEN Append(gaz, PlaceRow(synthetic, NextId(gaz))) ELSE gaz,
         matched |-> h.found, writes |-> writes, copies |-> copies,
         lookups |-> t.lookups, timezone |-> t.timezone,
         row |-> [country |-> z.country, code |-> z.code, name |-> z.name,
                  admin1 |-> m.admin1, latitude |-> h.latitude,
                  longitude |-> h.longitude, accuracy |-> z.accuracy,
                  timezone |-> t.timezone, geonames_id |-> h.geonames_id,
                  gazetteer_id |-> IF inserts THEN NextId(gaz)
                                   ELSE IF copies THEN 0 ELSE h.gazetteer_id,
                  source |-> "GEOZ"]]

PostalStep3Alt(z, m, h, gaz, grid) ==
    LET o == PostalWrite(z, m, h, PostalZone(h, gaz, grid), gaz)
    IN  [o EXCEPT !.row.gazetteer_id = h.gazetteer_id]

PostalStep3(z, m, h, gaz, grid) == PostalWrite(z, m, h, PostalZone(h, gaz, grid), gaz)

PostalStep2(z, m, gaz, grid) == PostalStep3(z, m, PostalHit(z, m), gaz, grid)

\* lines 493-573 for one line of the postal file
ProcessPostal(z, gaz, alts, r, grid) ==
    PostalStep2(z, PostalMatch(z, gaz, alts, r), gaz, grid)

-----------------------------------------------------------------------------
(***************************************************************************)
(* The main IIFE (lines 647-690) and its stages.                           *)
(***************************************************************************)
\* the parts of the state a specification does not run
GridIdle ==
    /\ features = <<>>
    /\ zoneGrid = EmptyGrid
    /\ gridPc = "init"
    /\ tzCall = NoCall

DbIdle ==
    /\ gazetteer = <<>>
    /\ dbCall = NoDbCall

ReadIdle ==
    /\ refs = EmptyRefs
    /\ places = <<>>
    /\ geoNamesLookup = {}
    /\ stream = <<>>
    /\ readLevel = 0

DoLists ==
    { <<"postal", "main">>,
      <<"shapes", "alt", "postal">>,
      <<"all">> }

shouldDo(step) == doList = <<"all">> \/ step \in Range(doList)

StageOrder == <<"main", "alt", "postal", "legacy", "zones">>

\* the first statement of a stage: main starts with readGeoData
StagePc(name) == IF name = "main" THEN "read0" ELSE name

StageIndex(p) ==
    CASE p \in {"read0", "read1", "primary"} -> 1
      [] p = "alt" -> 2
      [] p = "postal" -> 3
      [] p = "legacy" -> 4
      [] p = "zones" -> 5
      [] OTHER -> 0

\* the next if (shouldDo(...)) of lines 666-682 that holds, else process.exit(0)
RECURSIVE StageFrom(_)
StageFrom(i) ==
    IF i > Len(StageOrder) THEN "exit0"
    ELSE IF shouldDo(StageOrder[i]) THEN StagePc(StageOrder[i])
    ELSE StageFrom(i + 1)

\* the locals of a stage: index is the number of the record in hand, reached
\* the records the loop body ran for, errAt the record whose statement the
\* store rejected
NoStage ==
    [name |-> "", index |-> 0, connection |-> "undefined", reached |-> {},
     errAt |-> 0, caught |-> FALSE, done |-> FALSE, releases |-> 0]

Fresh(name) == [NoStage EXCEPT !.name = name]

\* a release that is the last statement of the try block
EndedAlt(st, threw) ==
    [st EXCEPT !.caught = threw, !.done = TRUE,
               !.connection = IF st.connection = "held" /\ ~threw THEN "released" ELSE @,
               !.releases = IF st.connection = "held" /\ ~threw THEN @ + 1 ELSE @]

\* the catch and the connection?.release() that end every stage
Ended(st, threw) ==
    [st EXCEPT !.caught = threw, !.done = TRUE,
               !.connection = IF st.connection = "held" THEN "released" ELSE @,
               !.releases = IF st.connection = "held" THEN @ + 1 ELSE @]

\* the record is done: on to the next one, or out of the loop
Stepped(st, n) ==
    LET at == [st EXCEPT !.index = st.index + 1, !.reached = @ \cup {st.index + 1}]
    IN  IF at.index = n THEN Ended(at, FALSE) ELSE at

\* a catch inside the loop: the error is logged and the loop goes on
RejectedAlt(st) ==
    [st EXCEPT !.index = st.index + 1, !.reached = @ \cup {st.index + 1},
               !.errAt = st.index + 1, !.caught = TRUE]

\* the statement of the record in hand is rejected: the catch after the loop
Rejected(st) ==
    Ended([st EXCEPT !.index = st.index + 1, !.reached = @ \cup {st.index + 1},
                     !.errAt = st.index + 1], TRUE)

NoEnv ==
    [known |-> {}, shapes |-> <<>>, postal |-> <<>>, failed |-> "none",
     errorsLeft |-> MaxStoreErrors]

NoPostal ==
    [line |-> 0, matched |-> FALSE, lookups |-> <<>>, timezone |-> NoTz,
     copies |-> FALSE, writes |-> FALSE, gazetteer_id |-> 0]

Store ==
    [gazetteer |-> gazetteer, gazetteer_countries |-> gazetteer_countries,
     gazetteer_admin |-> gazetteer_admin, gazetteer_alt_names |-> gazetteer_alt_names,
     gazetteer_postal |-> gazetteer_postal]

EmptyStore ==
    [gazetteer |-> <<>>, gazetteer_countries |-> <<>>, gazetteer_admin |-> <<<<>>, <<>>>>,
     gazetteer_alt_names |-> <<>>, gazetteer_postal |-> <<>>]

\* what a run leaves at its exit: the store and the places it accepted
LeftBy(store, accepted) == store @@ [places |-> accepted]

PipeIdle ==
    /\ pc = "idle"
    /\ doList = <<>>
    /\ stage = NoStage
    /\ run = 1
    /\ env = NoEnv
    /\ gazetteer_countries = <<>>
    /\ gazetteer_admin = <<<<>>, <<>>>>
    /\ gazetteer_alt_names = <<>>
    /\ gazetteer_postal = <<>>
    /\ wrote = FALSE
    /\ lastPostal = NoPostal
    /\ firstRun = LeftBy(EmptyStore, <<>>)

PipeInit ==
    /\ pc = "checkUnzip"
    /\ doList \in DoLists
    /\ stage = NoStage
    /\ run = 1
    /\ env = NoEnv
    /\ gazetteer = <<>>
    /\ gazetteer_countries = <<>>
    /\ gazetteer_admin = <<<<>>, <<>>>>
    /\ gazetteer_alt_names = <<>>
    /\ gazetteer_postal = <<>>
    /\ wrote = FALSE
    /\ lastPostal = NoPostal
    /\ firstRun = LeftBy(Store, <<>>)
    /\ dbCall = NoDbCall
    /\ GridIdle
    /\ ReadIdle

memVars == <<features, zoneGrid, gridPc, tzCall, refs, places, geoNamesLookup, stream,
             readLevel>>
runVars == <<doList, run, firstRun, dbCall>>

\* checkUnzip (91-99): throws when the unzip command cannot be spawned
CheckUnzip ==
    /\ pc = "checkUnzip"
    /\ \E ok \in BOOLEAN : pc' = IF ok THEN "shapes" ELSE "exit1"
    /\ UNCHANGED <<memVars, runVars, storeVars, gazetteer, stage, env, wrote, lastPostal>>

\* lines 656-661: getTimezoneShapes, the filter on Etc/, presortTimezones
GetShapes ==
    /\ pc = "shapes"
    /\ IF shouldDo("shapes") \/ shouldDo("zones")
       THEN \/ /\ pc' = "exit1"         \* getTimezoneShapes throws
               /\ UNCHANGED <<features, zoneGrid, gridPc, env>>
            \/ \E f \in IF "shapes" \in env.known THEN {env.shapes} ELSE ShapeFiles :
                 LET kept == SelectSeq(f, LAMBDA shape : ~IsEtc(shape.tzid))
                     r == PresortFrom(zoneGrid, kept, 1)
                 IN  /\ features' = kept
                     /\ zoneGrid' = r.grid
                     /\ gridPc' = IF r.thrown THEN "thrown" ELSE "ready"
                     /\ pc' = IF r.thrown THEN "exit1" ELSE "getGeoData"
                     /\ env' = [env EXCEPT !.known = @ \cup {"shapes"}, !.shapes = f]
       ELSE /\ pc' = "getGeoData"
            /\ UNCHANGED <<features, zoneGrid, gridPc, env>>
    /\ UNCHANGED <<tzCall, refs, places, geoNamesLookup, stream, readLevel, runVars,
                   storeVars, gazetteer, stage, wrote, lastPostal>>

\* getGeoData: four getPossiblyCachedFile calls, any of which may reject
GetGeoData ==
    /\ pc = "getGeoData"
    /\ \E ok \in BOOLEAN : pc' = IF ok THEN "initGazetteer" ELSE "exit1"
    /\ UNCHANGED <<memVars, runVars, storeVars, gazetteer, stage, env, wrote, lastPostal>>

\* initGazetteer (gazetteer.ts 172-258): it returns normally whatever failed
InitGazetteer ==
    /\ pc = "initGazetteer"
    /\ \E failed \in IF "feeds" \in env.known THEN {env.failed}
                     ELSE {"none"} \cup Range(InitFeeds) :
          /\ refs' = RefsAfter(failed)
          /\ env' = [env EXCEPT !.known = @ \cup {"feeds"}, !.failed = failed]
    /\ pc' = StageFrom(1)
    /\ stage' = Fresh(pc')
    /\ UNCHANGED <<features, zoneGrid, gridPc, tzCall, places, geoNamesLookup, stream,
                   readLevel, runVars, storeVars, gazetteer, wrote, lastPostal>>

GeoFile(p) == IF p = "read0" THEN Cities15000File ELSE AllCountriesFile

\* one turn of the for await loop of readGeoData, or its return
ReadGeoData ==
    /\ pc \in {"read0", "read1"}
    /\ IF stage.index < Len(GeoFile(pc))
       THEN /\ ReadLine(GeoFile(pc)[stage.index + 1], IF pc = "read0" THEN 0 ELSE 1)
            /\ readLevel' = IF pc = "read0" THEN 0 ELSE 1
            /\ stage' = [stage EXCEPT !.index = @ + 1]
            /\ pc' = IF ReadThrew' THEN "exit1" ELSE pc
       ELSE /\ pc' = IF pc = "read0" THEN "read1" ELSE "primary"
            /\ stage' = Fresh(pc')
            /\ UNCHANGED <<places, geoNamesLookup, stream, readLevel>>
    /\ UNCHANGED <<features, zoneGrid, gridPc, tzCall, refs, runVars, storeVars,
                   gazetteer, env, wrote, lastPostal>>

\* the comparator of places.sort (283-284): a negative result
Before(a, b) ==
    IF a.country = "USA" /\ b.country # "USA" THEN TRUE
    ELSE IF a.country # "USA" /\ b.country = "USA" THEN FALSE
    ELSE a.geonames_id < b.geonames_id

RECURSIVE SortPlaces(_)
SortPlaces(ps) ==
    IF ps = <<>> THEN <<>>
    ELSE LET least == {i \in DOMAIN ps : \A j \in DOMAIN ps : ~Before(ps[j], ps[i])}
             m == SetMin(least)
         IN  <<ps[m]>> \o SortPlaces([i \in 1 .. Len(ps) - 1 |->
                                         IF i < m THEN ps[i] ELSE ps[i + 1]])

\* the records of updatePrimaryTables in the order of its four loops
PrimaryItems(r, ps) ==
    [i \in DOMAIN r.countries |-> [table |-> "gazetteer_countries", loc |-> r.countries[i]]]
    \o [i \in DOMAIN r.admin1s |-> [table |-> "gazetteer_admin1", loc |-> r.admin1s[i]]]
    \o [i \in DOMAIN r.admin2s |-> [table |-> "gazetteer_admin2", loc |-> r.admin2s[i]]]
    \o [i \in DOMAIN ps |-> [table |-> "gazetteer", loc |-> ps[i]]]

\* the number of records of the loop of the stage
StageSize(p, r, ps, postalFile) ==
    CASE p = "primary" -> Len(PrimaryItems(r, ps))
      [] p = "alt" -> Len(AltNamesFile)
      [] p = "postal" -> Len(postalFile)
      [] OTHER -> 1

\* places.sort(...) for updatePrimaryTables, then pool.getConnection() as
\* every stage but buildZoneLookup starts; the postal stage opens its file
GetConnection ==
    /\ pc \in {"primary", "alt", "postal", "legacy"}
    /\ stage.connection = "undefined"
    /\ ~stage.done
    /\ places' = IF pc = "primary" THEN SortPlaces(places) ELSE places
    /\ \/ /\ env.errorsLeft > 0          \* getConnection rejects
          /\ env' = [env EXCEPT !.errorsLeft = @ - 1]
          /\ stage' = Ended(stage, TRUE)
       \/ \E f \in IF pc = "postal" /\ "postal" \notin env.known THEN PostalFiles
                   ELSE {env.postal} :
            LET held == [stage EXCEPT !.connection = "held"]
            IN  /\ env' = IF pc = "postal"
                          THEN [env EXCEPT !.known = @ \cup {"postal"}, !.postal = f]
                          ELSE env
                /\ stage' = IF StageSize(pc, refs, places', f) = 0
                            THEN Ended(held, FALSE) ELSE held
    /\ UNCHANGED <<pc, features, zoneGrid, gridPc, tzCall, refs, geoNamesLookup, stream,
                   readLevel, runVars, storeVars, gazetteer, wrote, lastPostal>>

\* one turn of one of the four loops of updatePrimaryTables (292-367)
PrimaryRecord ==
    /\ pc = "primary"
    /\ stage.connection = "held"
    /\ ~stage.done
    /\ LET items == PrimaryItems(refs, places)
           item == items[stage.index + 1]
           issues == IF item.table = "gazetteer" THEN ~Falsy(item.loc.timezone) ELSE TRUE
       IN  \/ /\ issues                 \* the store rejects the statement
              /\ env.errorsLeft > 0
              /\ env' = [env EXCEPT !.errorsLeft = @ - 1]
              /\ stage' = Rejected(stage)
              /\ wrote' = TRUE
              /\ UNCHANGED <<storeVars, gazetteer>>
           \/ /\ stage' = Stepped(stage, Len(items))
              /\ wrote' = (wrote \/ issues)
              /\ gazetteer_countries' =
                     IF item.table = "gazetteer_countries"
                     THEN UpsertCountry(gazetteer_countries, item.loc)
                     ELSE gazetteer_countries
              /\ gazetteer_admin' =
                     IF item.table = "gazetteer_admin1"
                     THEN [gazetteer_admin EXCEPT ![1] = UpsertAdmin(@, item.loc)]
                     ELSE IF item.table = "gazetteer_admin2"
                     THEN [gazetteer_admin EXCEPT ![2] = UpsertAdmin(@, item.loc)]
                     ELSE gazetteer_admin
              /\ gazetteer' =
                     IF item.table = "gazetteer" /\ issues
                     THEN UpsertPlace(gazetteer, item.loc)
                     ELSE gazetteer
              /\ UNCHANGED <<env, gazetteer_alt_names, gazetteer_postal>>
    /\ UNCHANGED <<pc, memVars, runVars, lastPostal>>

\* one turn of the loop of processAltNames (389-444)
AltNameRecord ==
    /\ pc = "alt"
    /\ stage.connection = "held"
    /\ ~stage.done
    /\ LET o == ProcessAltName(AltNamesFile[stage.index + 1], gazetteer_countries,
                               gazetteer_admin[1], gazetteer_admin[2], gazetteer)
       IN  \/ /\ o.writes               \* the store rejects the statement
              /\ env.errorsLeft > 0
              /\ env' = [env EXCEPT !.errorsLeft = @ - 1]
              /\ stage' = Rejected(stage)
              /\ wrote' = TRUE
              /\ UNCHANGED gazetteer_alt_names
           \/ /\ stage' = Stepped(stage, Len(AltNamesFile))
              /\ wrote' = (wrote \/ o.writes)
              /\ gazetteer_alt_names' =
                     IF o.writes THEN UpsertAltName(gazetteer_alt_names, o.row)
                     ELSE gazetteer_alt_names
              /\ UNCHANGED env
    /\ UNCHANGED <<pc, memVars, runVars, lastPostal, gazetteer, gazetteer_countries,
                   gazetteer_admin, gazetteer_postal>>

\* one turn of the loop of processPostalCodes (492-577)
PostalRecord ==
    /\ pc = "postal"
    /\ stage.connection = "held"
    /\ ~stage.done
    /\ LET o == ProcessPostal(env.postal[stage.index + 1], gazetteer,
                              gazetteer_alt_names, refs, zoneGrid)
           did == [line |-> stage.index + 1, matched |-> o.matched,
                   lookups |-> o.lookups, timezone |-> o.timezone, copies |-> o.copies,
                   writes |-> o.writes, gazetteer_id |-> o.row.gazetteer_id]
       IN  \/ /\ env.errorsLeft > 0     \* the store rejects the first SELECT
              /\ env' = [env EXCEPT !.errorsLeft = @ - 1]
              /\ stage' = Rejected(stage)
              /\ lastPostal' = NoPostal
              /\ UNCHANGED <<gazetteer, gazetteer_postal, wrote>>
           \/ /\ o.writes               \* the store rejects the last INSERT
              /\ env.errorsLeft > 0
              /\ env' = [env EXCEPT !.errorsLeft = @ - 1]
              /\ stage' = Rejected(stage)
              /\ lastPostal' = did
              /\ gazetteer' = o.gaz
              /\ wrote' = TRUE
              /\ UNCHANGED gazetteer_postal
           \/ /\ stage' = Stepped(stage, Len(env.postal))
              /\ lastPostal' = did
              /\ gazetteer' = o.gaz
              /\ gazetteer_postal' =
                     IF o.writes THEN UpsertPostal(gazetteer_postal, o.row)
                     ELSE gazetteer_postal
              /\ wrote' = (wrote \/ o.writes)
              /\ UNCHANGED env
    /\ UNCHANGED <<pc, memVars, runVars, gazetteer_countries, gazetteer_admin,
                   gazetteer_alt_names>>

\* legacyItems after getConnection (591-614): it only reads gazetteer_legacy
LegacyItems ==
    /\ pc = "legacy"
    /\ stage.connection = "held"
    /\ ~stage.done
    /\ \/ /\ env.errorsLeft > 0
          /\ env' = [env EXCEPT !.errorsLeft = @ - 1]
          /\ stage' = Rejected(stage)
       \/ /\ stage' = Stepped(stage, 1)
          /\ UNCHANGED env
    /\ UNCHANGED <<pc, memVars, runVars, storeVars, gazetteer, wrote, lastPostal>>

\* buildZoneLookup (623-645): no connection is ever opened
BuildZoneLookup ==
    /\ pc = "zones"
    /\ ~stage.done
    /\ stage' = Ended(stage, FALSE)
    /\ UNCHANGED <<pc, memVars, runVars, storeVars, gazetteer, env, wrote, lastPostal>>

\* a stage that hands the error it caught on to main
NextStageAlt ==
    /\ pc \in {"primary", "alt", "postal", "legacy", "zones"}
    /\ stage.done
    /\ pc' = IF stage.caught THEN "exit1" ELSE StageFrom(StageIndex(pc) + 1)
    /\ stage' = Fresh(pc')
    /\ firstRun' = IF pc' = "exit0" /\ run = 1 THEN LeftBy(Store, places) ELSE firstRun
    /\ UNCHANGED <<memVars, doList, run, dbCall, storeVars, gazetteer, env, wrote,
                   lastPostal>>

\* the stage returns; main goes to the next if (shouldDo(...)) or exits
NextStage ==
    /\ pc \in {"primary", "alt", "postal", "legacy", "zones"}
    /\ stage.done
    /\ pc' = StageFrom(StageIndex(pc) + 1)
    /\ stage' = Fresh(pc')
    /\ firstRun' = IF pc' = "exit0" /\ run = 1 THEN LeftBy(Store, places) ELSE firstRun
    /\ UNCHANGED <<memVars, doList, run, dbCall, storeVars, gazetteer, env, wrote,
                   lastPostal>>

\* the program is started again with the same arguments on the same files
RunAgain ==
    /\ pc = "exit0"
    /\ run < MaxRuns
    /\ run' = run + 1
    /\ pc' = "checkUnzip"
    /\ stage' = NoStage
    /\ wrote' = FALSE
    /\ lastPostal' = NoPostal
    /\ features' = <<>>
    /\ zoneGrid' = EmptyGrid
    /\ gridPc' = "init"
    /\ refs' = EmptyRefs
    /\ places' = <<>>
    /\ geoNamesLookup' = {}
    /\ stream' = <<>>
    /\ readLevel' = 0
    /\ UNCHANGED <<tzCall, doList, firstRun, dbCall, storeVars, gazetteer, env>>

PipeNext ==
    \/ CheckUnzip
    \/ GetShapes
    \/ GetGeoData
    \/ InitGazetteer
    \/ ReadGeoData
    \/ GetConnection
    \/ PrimaryRecord
    \/ AltNameRecord
    \/ PostalRecord
    \/ LegacyItems
    \/ BuildZoneLookup
    \/ NextStage
    \/ RunAgain

-----------------------------------------------------------------------------
(***************************************************************************)
(* getPossiblyCachedFile (file-util.ts).  A path of the disk is a record;  *)
(* times are whole milliseconds.  requestFile and unzip are outside the    *)
(* sources: each of their outcomes is a choice of the environment.         *)
(***************************************************************************)
MaxTime == 3

\* a path that does not exist: stat rejects, safeStat returns null
Absent == [exists |-> FALSE, size |-> 0, mtimeMs |-> 0]

OnDisk(size, mtimeMs) == [exists |-> TRUE, size |-> size, mtimeMs |-> mtimeMs]

\* safeStat(path, opts): the stats it returns and what it leaves at the path
safeStat(f, deleteIfEmpty) ==
    IF f.exists /\ deleteIfEmpty /\ f.size = 0
    THEN [stats |-> Absent, left |-> Absent]
    ELSE [stats |-> f, left |-> f]

\* autoTick: the interval timer of the call is active
NoFetch ==
    [pc |-> "idle", unzipPath |-> FALSE, stats |-> Absent, suffix |-> "",
     fromCache |-> FALSE, failed |-> FALSE, outcome |-> "none", autoTick |-> FALSE]

FileIdle ==
    /\ disk = [file |-> Absent, tmp |-> Absent, unzipped |-> Absent, member |-> Absent]
    /\ fetch = NoFetch

\* the disk as earlier calls may have left it
FileInit ==
    /\ disk \in [file : {Absent, OnDisk(0, 1)} \cup {OnDisk(1, t) : t \in 1 .. MaxTime},
                 tmp : {Absent, OnDisk(1, 1)},
                 unzipped : {Absent, OnDisk(0, 1)} \cup {OnDisk(1, t) : t \in 1 .. MaxTime},
                 member : {Absent}]
    /\ fetch = NoFetch

\* lines 40-80: setInterval (43), safeStat(file, { deleteIfEmpty: true }),
\* unzipPath, suffix
StartFetch ==
    /\ fetch.pc = "idle"
    /\ \E unzipPath \in BOOLEAN :
           LET st == safeStat(disk.file, TRUE)
           IN  /\ disk' = [disk EXCEPT !.file = st.left]
               /\ fetch' = [NoFetch EXCEPT !.pc = "requestFile", !.unzipPath = unzipPath,
                                           !.autoTick = TRUE,
                                           !.stats = st.stats,
                                           !.suffix = IF st.stats.exists THEN ".tmp" ELSE ""]

\* the path requestFile is told to write: file + suffix
Target == IF fetch.suffix = "" THEN "file" ELSE "tmp"

\* line 83: await requestFile(url, opts, file + suffix).  It downloads to
\* the target, or finds the cached copy current (responseInfo.fromCache), or
\* rejects; a rejected download may leave the target as it was, empty, or
\* partly written.  Line 84: clearInterval(autoTick) follows the await inside
\* the try, so it runs when requestFile resolved.
RequestFile ==
    /\ fetch.pc = "requestFile"
    /\ \/ \E t \in 1 .. MaxTime :
              /\ disk' = [disk EXCEPT ![Target] = OnDisk(1, t)]
              /\ fetch' = [fetch EXCEPT !.pc = "downloaded", !.autoTick = FALSE]
       \/ /\ fetch.stats.exists
          /\ \E left \in {disk.tmp, OnDisk(1, fetch.stats.mtimeMs)} :
                 disk' = [disk EXCEPT !.tmp = left]
          /\ fetch' = [fetch EXCEPT !.pc = "downloaded", !.fromCache = TRUE,
                                    !.autoTick = FALSE]
       \/ /\ \E left \in {disk[Target]} \cup {OnDisk(n, t) : n \in {0, 1}, t \in 1 .. MaxTime} :
                 disk' = [disk EXCEPT ![Target] = left]
          /\ fetch' = [fetch EXCEPT !.pc = "catch", !.failed = TRUE]

\* lines 84-103: the download replaces the cached copy, or is dropped; the
\* file is there and not empty after a download that resolved
Downloaded ==
    /\ fetch.pc = "downloaded"
    /\ disk' = IF fetch.suffix = "" THEN disk
               ELSE IF ~fetch.fromCache
               THEN [disk EXCEPT !.file = disk.tmp, !.tmp = Absent]    \* rename
               ELSE [disk EXCEPT !.tmp = Absent]                       \* safeUnlink
    /\ fetch' = IF fetch.unzipPath THEN [fetch EXCEPT !.pc = "unzip"]
                ELSE [fetch EXCEPT !.pc = "done", !.outcome = "resolved"]

\* line 109: the extracted file is missing or older than the archive
Stale(statUnzip, statZip) ==
    ~statUnzip.exists \/ statUnzip.mtimeMs < statZip.mtimeMs - 1

\* lines 105-157.  names: what unzip -Z1 lists ("one" name, "many" with the
\* wanted one, "other" names only); extracted: the second unzip wrote the
\* member.  rename rejects when the member is not there.
Unzip ==
    /\ fetch.pc = "unzip"
    /\ LET statZip == safeStat(disk.file, FALSE).stats
           un == safeStat(disk.unzipped, TRUE)
       IN  IF Stale(un.stats, statZip)
           THEN \E names \in {"one", "many", "other"}, extracted \in BOOLEAN :
                    IF names = "other" \/ ~extracted
                    THEN /\ disk' = [disk EXCEPT !.unzipped = Absent, !.member = Absent]
                         /\ fetch' = [fetch EXCEPT !.pc = "catch"]
                    ELSE /\ disk' = [disk EXCEPT
                                        !.unzipped = OnDisk(1, statZip.mtimeMs),   \* utimes
                                        !.member = Absent]
                         /\ fetch' = [fetch EXCEPT !.pc = "done", !.outcome = "resolved"]
           ELSE /\ disk' = [disk EXCEPT !.unzipped = un.left]
                /\ fetch' = [fetch EXCEPT !.pc = "done", !.outcome = "resolved"]

\* lines 159-165: the catch of the whole try.  readFile(file) rejects only
\* when the file is not there.  The catch has no clearInterval.
Catch ==
    /\ fetch.pc = "catch"
    /\ disk' = IF fetch.suffix # "" /\ disk.tmp.exists THEN [disk EXCEPT !.tmp = Absent]
               ELSE disk
    /\ fetch' = [fetch EXCEPT !.pc = "done",
                              !.outcome = IF disk.file.exists THEN "resolved"
                                          ELSE "rejected"]

\* the next call for the same file, in the same run or a later one
FetchAgain ==
    /\ fetch.pc = "done"
    /\ fetch' = NoFetch
    /\ UNCHANGED disk

FileNext ==
    \/ StartFetch
    \/ RequestFile
    \/ Downloaded
    \/ Unzip
    \/ Catch
    \/ FetchAgain

-----------------------------------------------------------------------------
(***************************************************************************)
(* The places loop of updatePrimaryTables on a store that earlier runs     *)
(* have filled from files that have changed since.                         *)
(***************************************************************************)
MaxIssued == 3

\* lines of the place files of several editions
StoreLines ==
    { GeoLine(1, "Alton", "P", "PPL", "US", "IL", 30000, 130, "America/Chicago", 3889, -9018),
      GeoLine(1, "ALTON", "P", "PPLA", "US", "MO", 31000, 131, "America/Indiana/Knox", 3890, -9017),
      GeoLine(3, "Mount Hood", "T", "MT", "US", "OR", 0, 3400, "America/Los_Angeles", 4537, -12170),
      GeoLine(3, "Mount Hood", "T", "PK", "US", "OR", 0, 3426, "", 4537, -12170),
      GeoLine(5, "Ottawa", "P", "PPLC", "CA", "08", 900000, 70, "America/Toronto", 4541, -7570) }

\* the entries of places that readGeoData makes of them, no shape loaded
StoreLocs ==
    { Location(l, level,
               processPlaceNames(l.name, l.admin2, l.admin1, l.countryCode, LoadedRefs),
               EmptyGrid) : l \in StoreLines, level \in {0, 1} }

IssueIdle == issued = <<>>

StoreInit ==
    /\ gazetteer = <<>>
    /\ dbCall = NoDbCall
    /\ issued = <<>>

\* one turn of the places loop (343-367): the statement is issued when the
\* location has a timezone, else the location is reported
PlaceRecord ==
    /\ Len(issued) < MaxIssued
    /\ \E loc \in StoreLocs :
          /\ issued' = Append(issued, loc)
          /\ gazetteer' = IF ~Falsy(loc.timezone) THEN UpsertPlace(gazetteer, loc)
                          ELSE gazetteer
    /\ UNCHANGED dbCall

-----------------------------------------------------------------------------
(***************************************************************************)
(* The loop of processAltNames on a store whose four entity tables were    *)
(* filled from files in which one external id may name several entities.  *)
(***************************************************************************)
MaxAltRows == 2

\* the external ids of the entities and of the lines
AltIds == {1, 2}

\* a table of no row, or of one entity of each external id
CountryTables ==
    {<<>>} \cup
    { UpsertCountry(<<>>, [LoadedRefs.countries[1] EXCEPT !.geonames_id = g]) : g \in AltIds }

AdminTables(info) ==
    {<<>>} \cup
    { UpsertAdmin(<<>>, [AdminRows(info)[1] EXCEPT !.geonames_id = g]) : g \in AltIds }

PlaceTables ==
    {<<>>} \cup
    { UpsertPlace(<<>>, loc) : loc \in {l \in StoreLocs : l.geonames_id \in AltIds /\ l.rank = 2} }

\* lines of alternateNames.txt
AltLines ==
    { [geonames_alt_id |-> 200 + g, geonames_orig_id |-> g, lang |-> lang, name |-> name] :
         g \in AltIds, lang \in {"en", "link"}, name \in {"Upper Alton", "Alton"} }

AltInit ==
    /\ pc = "alt"
    /\ doList = <<"alt">>
    /\ stage = [Fresh("alt") EXCEPT !.connection = "held"]
    /\ run = 1
    /\ env = [NoEnv EXCEPT !.errorsLeft = 0]
    /\ gazetteer \in PlaceTables
    /\ gazetteer_countries \in CountryTables
    /\ gazetteer_admin \in {<<t1, t2>> : t1 \in AdminTables(Admin1Info),
                                         t2 \in AdminTables(Admin2Info)}
    /\ gazetteer_alt_names = <<>>
    /\ gazetteer_postal = <<>>
    /\ wrote = FALSE
    /\ lastPostal = NoPostal
    /\ firstRun = LeftBy(EmptyStore, <<>>)
    /\ dbCall = NoDbCall

\* one turn of the loop of processAltNames (389-444) on any line that makes
\* it issue its statement
AltLineRecord ==
    /\ pc = "alt"
    /\ stage.connection = "held"
    /\ Len(gazetteer_alt_names) < MaxAltRows
    /\ \E a \in AltLines :
          LET o == ProcessAltName(a, gazetteer_countries, gazetteer_admin[1],
                                  gazetteer_admin[2], gazetteer)
          IN  /\ o.writes
              /\ gazetteer_alt_names' = UpsertAltName(gazetteer_alt_names, o.row)
              /\ wrote' = TRUE
    /\ UNCHANGED <<pc, doList, stage, run, env, gazetteer, gazetteer_countries, gazetteer_admin,
                   gazetteer_postal, lastPostal, firstRun, dbCall>>

-----------------------------------------------------------------------------
(***************************************************************************)
(* The name functions of gazetteer.ts.  A string is the sequence of its    *)
(* characters.                                                             *)
(***************************************************************************)
MaxMatchLen == 3
MaxCommaLen == 4

LowerLetters == <<"a", "b", "c", "d", "e", "f", "g", "h", "i", "j", "k", "l", "m", "n", "o", "p", "q", "r", "s", "t", "u", "v", "w", "x", "y", "z">>
UpperLetters == <<"A", "B", "C", "D", "E", "F", "G", "H", "I", "J", "K", "L", "M", "N", "O", "P", "Q", "R", "S", "T", "U", "V", "W", "X", "Y", "Z">>
Digits == {"0", "1", "2", "3", "4", "5", "6", "7", "8", "9"}

\* toUpperCase of one character
ToUpper(c) ==
    IF \E i \in DOMAIN LowerLetters : LowerLetters[i] = c
    THEN UpperLetters[CHOOSE i \in DOMAIN LowerLetters : LowerLetters[i] = c]
    ELSE c

\* makePlainASCII_UC(s) on the characters of the model, which carry no
\* diacritical marks: upper case
makePlainASCII_UC(s) == [i \in 1 .. Len(s) |-> ToUpper(s[i])]

\* /[0-9A-Z]/i.test(ch)
IsAlnum(ch) == ToUpper(ch) \in Range(UpperLetters) \cup Digits

\* \w
IsWord(ch) == IsAlnum(ch) \/ ch = "_"

\* s.indexOf(ch): 0 when ch is not in s
IndexOf(s, ch) ==
    IF \E i \in 1 .. Len(s) : s[i] = ch
    THEN CHOOSE i \in 1 .. Len(s) : s[i] = ch /\ \A j \in 1 .. i - 1 : s[j] # ch
    ELSE 0

\* s.trim()
RECURSIVE Trim(_)
Trim(s) ==
    IF s = <<>> THEN s
    ELSE IF s[1] = " " THEN Trim(Tail(s))
    ELSE IF s[Len(s)] = " " THEN Trim(SubSeq(s, 1, Len(s) - 1))
    ELSE s

\* testee.startsWith(test)
StartsWith(testee, test) ==
    Len(test) <= Len(testee) /\ SubSeq(testee, 1, Len(test)) = test

\* the first loop of simplify: '-' and '.' become a space, a space, a digit
\* or a letter is kept, anything else is dropped
KeepPlain(s) ==
    LET spaced == [i \in 1 .. Len(s) |-> IF s[i] \in {"-", "."} THEN " " ELSE s[i]]
    IN  SelectSeq(spaced, LAMBDA ch : ch = " " \/ IsAlnum(ch))

\* processAbbreviations with asVariant false
Abbreviate(s) ==
    LET a == IF StartsWith(s, <<"F", "O", "R", "T", " ">>) THEN <<"F", "T">> \o SubSeq(s, 6, Len(s))
             ELSE IF StartsWith(s, <<"M", "O", "U", "N", "T", " ">>) THEN <<"M", "T">> \o SubSeq(s, 7, Len(s))
             ELSE IF StartsWith(s, <<"P", "O", "I", "N", "T", " ">>) THEN <<"P", "T">> \o SubSeq(s, 7, Len(s))
             ELSE s
    IN  IF StartsWith(a, <<"S", "A", "I", "N", "T", " ">>) THEN <<"S", "T">> \o SubSeq(a, 7, Len(a))
        ELSE IF StartsWith(a, <<"S", "A", "I", "N", "T", "E", " ">>) THEN <<"S", "T", "E">> \o SubSeq(a, 8, Len(a))
        ELSE a

\* the last loop of simplify: spaces dropped, 40 characters kept
Pack(s) ==
    LET t == SelectSeq(s, LAMBDA ch : ch # " ")
    IN  SubSeq(t, 1, IF Len(t) < 40 THEN Len(t) ELSE 40)

\* simplify(s), asVariant false, processAbbreviations true
simplify(s) ==
    IF s = <<>> THEN s
    ELSE LET pos == IndexOf(s, "(")
             cut == IF pos >= 1 THEN Trim(SubSeq(s, 1, pos - 1)) ELSE s
         IN  Pack(Abbreviate(KeepPlain(makePlainASCII_UC(cut))))

\* a match whose arguments are taken the other way round
closeMatchForCityAlt(target, candidate) ==
    IF target = <<>> \/ candidate = <<>> THEN FALSE
    ELSE StartsWith(simplify(target), simplify(candidate))

closeMatchForCity(target, candidate) ==
    IF target = <<>> \/ candidate = <<>> THEN FALSE
    ELSE StartsWith(simplify(candidate), simplify(target))

\* where (.+), (\w) can end its first group: the comma at i, a space, a
\* word character; the first group is not empty
CommaAt(name) ==
    {i \in 2 .. Len(name) - 2 : name[i] = "," /\ name[i + 1] = " " /\ IsWord(name[i + 2])}

\* the last apostrophe of the name, 0 when it has none
LastApostrophe(name) ==
    IF \E i \in 1 .. Len(name) : name[i] = "'"
    THEN SetMax({i \in 1 .. Len(name) : name[i] = "'"})
    ELSE 0

\* the variant is undefined when neither pattern matches
NoVariant == <<>>

\* a variant that is the word after the comma
fixRearrangedNameAlt(name) ==
    IF CommaAt(name) = {} THEN [name |-> name, variant |-> NoVariant]
    ELSE LET i == SetMax(CommaAt(name))
         IN  [name |-> <<ToUpper(name[i + 2])>> \o SubSeq(name, i + 3, Len(name))
                       \o <<" ">> \o SubSeq(name, 1, i - 1),
              variant |-> <<ToUpper(name[i + 2])>> \o SubSeq(name, i + 3, Len(name))]

\* fixRearrangedName(name).  /(.+), (\w)(.*')/ is tried first: its greedy
\* first group ends at the last comma that an apostrophe follows, its third
\* group at the last apostrophe.  Then /(.+), (\w)(.*)/.
fixRearrangedName(name) ==
    LET last == LastApostrophe(name)
        c1 == {i \in CommaAt(name) : i + 3 <= last}
        c2 == CommaAt(name)
    IN  IF c1 # {}
        THEN LET i == SetMax(c1)
             IN  [name |-> <<ToUpper(name[i + 2])>> \o SubSeq(name, i + 3, last)
                           \o SubSeq(name, 1, i - 1),
                  variant |-> SubSeq(name, 1, i - 1)]
        ELSE IF c2 # {}
        THEN LET i == SetMax(c2)
             IN  [name |-> <<ToUpper(name[i + 2])>> \o SubSeq(name, i + 3, Len(name))
                           \o <<" ">> \o SubSeq(name, 1, i - 1),
                  variant |-> SubSeq(name, 1, i - 1)]
        ELSE [name |-> name, variant |-> NoVariant]

\* the strings of at most n characters over an alphabet
StringsUpTo(alphabet, n) == UNION {[1 .. k -> alphabet] : k \in 0 .. n}

\* names handed to closeMatchForCity
MatchNames ==
    StringsUpTo({"A", "b", " ", "("}, MaxMatchLen)
    \cup { <<"M", "o", "u", "n", "t", " ", "H", "o", "o", "d">>, <<"M", "t", ".", " ", "H", "o", "o", "d">>, <<"S", "a", "i", "n", "t", " ", "P", "a", "u", "l">>, <<"S", "t", " ", "P", "a", "u", "l", " ", "(", "M", "N", ")">>, <<"F", "o", "r", "t", " ", "D", "i", "x">> }

\* names handed to fixRearrangedName
CommaNames ==
    StringsUpTo({"A", "b", ",", " ", "'"}, MaxCommaLen)
    \cup { <<"M", "o", "u", "n", "t", " ", "P", "l", "e", "a", "s", "a", "n", "t", ",", " ", "T", "h", "e">>, <<"A", "q", "u", "i", "l", "a", ",", " ", "l", "'">> }

NoNameCall == [fn |-> "", args |-> <<>>, result |-> <<>>]

NameInit == nameCall = NoNameCall

\* one call at a time: the functions keep no state between calls
CloseMatchForCity ==
    /\ nameCall.fn = ""
    /\ \E target, candidate \in MatchNames :
        nameCall' = [fn |-> "closeMatchForCity", args |-> <<target, candidate>>,
                     result |-> closeMatchForCity(target, candidate)]

FixRearrangedName ==
    /\ nameCall.fn = ""
    /\ \E name \in CommaNames :
        nameCall' = [fn |-> "fixRearrangedName", args |-> <<name>>,
                     result |-> fixRearrangedName(name)]

\* the tables of initGazetteer with the codes of two more countries
NameRefs ==
    [LoadedRefs EXCEPT
        !.code2ToCode3 = ("FR" :> "FRA") @@ ("CH" :> "CHE") @@ @,
        !.code3ToCode2 = ("FRA" :> "FR") @@ ("CHE" :> "CH") @@ @,
        !.code3ToName = ("FRA" :> "France") @@ ("CHE" :> "Switzerland") @@ @,
        !.nameToCode3 = ("FRANCE" :> "FRA") @@ ("SWITZERLAND" :> "CHE") @@ @,
        !.states = ("FR.11" :> "Ile-de-France") @@ ("CH.ZH" :> "Zurich") @@ @,
        !.counties = ("FR.11.75" :> "Paris") @@ ("CH.ZH.112" :> "Bezirk Zurich") @@ @]

\* a call of processPlaceNames(city, county, state, country)
ProcessPlaceNames ==
    /\ nameCall.fn = ""
    /\ \E city \in {"Paris", "Zurich", "Lot 12b"},
          county \in {"", "75", "99", "112", "Paris"},
          state \in {"", "11", "99", "ZH"},
          country \in {"FR", "FRA", "CH", "XX"} :
          nameCall' = [fn |-> "processPlaceNames",
                       args |-> <<city, county, state, country>>,
                       result |-> processPlaceNames(city, county, state, country, NameRefs)]

\* the caller has taken the result
NameReturn ==
    /\ nameCall.fn # ""
    /\ nameCall' = NoNameCall

NameNext ==
    \/ CloseMatchForCity
    \/ FixRearrangedName
    \/ ProcessPlaceNames
    \/ NameReturn

\* no name function has been called
NameIdle == nameCall = NoNameCall

-----------------------------------------------------------------------------
(***************************************************************************)
(* Specifications.  Each one runs one part of the program on inputs drawn  *)
(* from the sets above; the variables of the other parts stay as they are. *)
(***************************************************************************)
\* presortTimezones, then calls of findTimezone
SpecGridInit == GridInit /\ DbIdle /\ ReadIdle /\ PipeIdle /\ FileIdle /\ NameIdle /\ IssueIdle
SpecGridNext == GridNext /\ UNCHANGED <<dbVars, readVars, pipeVars, fileVars, nameVars, issuedVars>>
SpecGrid == SpecGridInit /\ [][SpecGridNext]_vars

\* calls of findTimezoneInDb on a store earlier runs have filled
SpecTzDbInit == DbInit /\ GridIdle /\ ReadIdle /\ PipeIdle /\ FileIdle /\ NameIdle /\ IssueIdle
SpecTzDbNext ==
    FindTimezoneInDb /\ UNCHANGED <<gridVars, readVars, pipeVars, fileVars, nameVars, issuedVars>>
SpecTzDb == SpecTzDbInit /\ [][SpecTzDbNext]_vars

\* the two readGeoData calls of a run, on any lines
SpecReadInit == ReadInit /\ DbIdle /\ PipeIdle /\ FileIdle /\ NameIdle /\ IssueIdle
SpecReadNext ==
    \/ ReadGeoLine /\ UNCHANGED <<gridVars, dbVars, pipeVars, fileVars, nameVars, issuedVars>>
    \/ NextFile /\ UNCHANGED <<gridVars, dbVars, pipeVars, fileVars, nameVars, issuedVars>>
SpecRead == SpecReadInit /\ [][SpecReadNext]_vars

\* runs of the whole program on a store that starts empty
SpecPipeInit == PipeInit /\ FileIdle /\ NameIdle /\ IssueIdle
SpecPipeNext == PipeNext /\ UNCHANGED <<fileVars, nameVars, issuedVars>>
SpecPipe == SpecPipeInit /\ [][SpecPipeNext]_vars

\* calls of getPossiblyCachedFile for one file, on any disk
SpecFileInit == FileInit /\ GridIdle /\ DbIdle /\ ReadIdle /\ PipeIdle /\ NameIdle /\ IssueIdle
SpecFileNext ==
    FileNext /\ UNCHANGED <<gridVars, dbVars, readVars, pipeVars, nameVars, issuedVars>>
SpecFile == SpecFileInit /\ [][SpecFileNext]_vars

\* calls of the name functions on any names
SpecNamesInit ==
    NameInit /\ GridIdle /\ DbIdle /\ ReadIdle /\ PipeIdle /\ FileIdle /\ IssueIdle
SpecNamesNext ==
    NameNext /\ UNCHANGED <<gridVars, dbVars, readVars, pipeVars, fileVars, issuedVars>>
SpecNames == SpecNamesInit /\ [][SpecNamesNext]_vars

\* the places loop of several runs on one store
SpecStoreInit == StoreInit /\ GridIdle /\ ReadIdle /\ PipeIdle /\ FileIdle /\ NameIdle
SpecStoreNext ==
    PlaceRecord /\ UNCHANGED <<gridVars, readVars, pipeVars, fileVars, nameVars>>
SpecStore == SpecStoreInit /\ [][SpecStoreNext]_vars

\* the loop of processAltNames on any store and any lines
SpecAltInit == AltInit /\ GridIdle /\ ReadIdle /\ FileIdle /\ NameIdle /\ IssueIdle
SpecAltNext ==
    AltLineRecord /\ UNCHANGED <<gridVars, readVars, fileVars, nameVars, issuedVars>>
SpecAlt == SpecAltInit /\ [][SpecAltNext]_vars

-----------------------------------------------------------------------------
(***************************************************************************)
(* The claims.                                                             *)
(***************************************************************************)

\* the longitudes of column x of the grid, as findTimezone assigns them:
\* floor(mod(lon, 360) / 15) = x; and the latitudes of row y
BboxMeetsColumn(bbox, x) ==
    LET lo == IF x <= 11 THEN 1500 * x ELSE 1500 * x - 36000
    IN  \/ bbox.lonA < lo + 1500 /\ lo <= bbox.lonB
        \/ x = 12 /\ bbox.lonB = 18000

BboxMeetsRow(bbox, y) ==
    LET lo == 1500 * y - 9000
    IN  bbox.latA < lo + 1500 /\ lo <= bbox.latB

\* C6: once presortTimezones has indexed the collection, every polygon whose
\* bounding box meets a cell is in that cell's candidate list.
C6_NoFalseNegatives ==
    gridPc = "ready" =>
        \A i \in 1 .. Len(features), x \in GridXs, y \in GridYs :
            (BboxMeetsColumn(getBbox(features[i]), x) /\ BboxMeetsRow(getBbox(features[i]), y))
                => features[i] \in Range(CellList(zoneGrid, x, y))

\* C7: findTimezone returns a timezone id only for a point inside a loaded
\* polygon with that id, and none when no candidate of the point's cell
\* (an empty cell included) contains the point.
C7_FindTimezoneSound ==
    tzCall.called =>
        /\ tzCall.result # NoTz =>
               \E i \in 1 .. Len(features) :
                   /\ features[i].tzid = tzCall.result
                   /\ booleanPointInPolygon(tzCall.lon, tzCall.lat, features[i])
        /\ (\A c \in Range(Candidates(zoneGrid, Floor15(tzCall.lon % 36000),
                                      Floor15(tzCall.lat + 9000))) :
                ~booleanPointInPolygon(tzCall.lon, tzCall.lat, c))
               => tzCall.result = NoTz

C7_Witness ==
    /\ tzCall.called
    /\ tzCall.lat = 4185 /\ tzCall.lon = -8765
    /\ tzCall.result = "America/Chicago"
    /\ Len(features) = 2

\* the stored rows with a timezone inside the box of half-width span
TzRowsInBox(lat, lon, span) ==
    {i \in 1 .. Len(gazetteer) :
        InBox(gazetteer[i], lat, lon, span) /\ ~Falsy(gazetteer[i].timezone)}

BoxDisagrees(lat, lon, span) ==
    \E i, j \in TzRowsInBox(lat, lon, span) : gazetteer[i].timezone # gazetteer[j].timezone

IsPrefix(s, t) == Len(s) <= Len(t) /\ \A i \in 1 .. Len(s) : s[i] = t[i]

\* C9: findTimezoneInDb queries the boxes 0.05, 0.1, 0.25, 0.5 in that order,
\* stops at the first one that yields a timezone, returns T only if every
\* stored entity with a timezone in that box has T, and on a disagreement
\* inside a box returns not-found without a query for a wider box.
C9_ProximityChain ==
    dbCall.called =>
        LET q == dbCall.queried
            last == q[Len(q)]
        IN  /\ Len(q) >= 1 /\ IsPrefix(q, Spans)
            /\ \A k \in 1 .. Len(q) - 1 : TzRowsInBox(dbCall.lat, dbCall.lon, q[k]) = {}
            /\ dbCall.timezone # NoTz =>
                   /\ TzRowsInBox(dbCall.lat, dbCall.lon, last) # {}
                   /\ \A i \in TzRowsInBox(dbCall.lat, dbCall.lon, last) :
                          gazetteer[i].timezone = dbCall.timezone
            /\ BoxDisagrees(dbCall.lat, dbCall.lon, last) => dbCall.timezone = NoTz
            /\ (dbCall.timezone = NoTz /\ ~BoxDisagrees(dbCall.lat, dbCall.lon, last))
                   => q = Spans

\* a call that met two timezones in a box and asked for no wider one
C9_Witness ==
    /\ dbCall.called
    /\ dbCall.queried = <<5, 10, 25>>
    /\ dbCall.timezone = NoTz
    /\ BoxDisagrees(dbCall.lat, dbCall.lon, 25)

\* C10: findTimezoneInDb returns no timezone at a step whose box holds
\* timezone-bearing entities of two different countries.
C10_CountryAgreement ==
    (dbCall.called /\ dbCall.timezone # NoTz) =>
        \A i, j \in TzRowsInBox(dbCall.lat, dbCall.lon, dbCall.queried[Len(dbCall.queried)]) :
            gazetteer[i].country = gazetteer[j].country

\* the first line of the stream with the id of entry e of places
FirstOccurrence(id) ==
    SetMin({k \in 1 .. Len(stream) : stream[k].line.geonames_id = id})

Built(k) ==
    Location(stream[k].line, stream[k].level,
             processPlaceNames(stream[k].line.name, stream[k].line.admin2,
                               stream[k].line.admin1, stream[k].line.countryCode, refs),
             zoneGrid)

\* whether line k of the stream passes the filter and the resolver, whatever
\* was seen before it
Passes(k) == Accepted(stream[k].line, stream[k].level, {}, refs)

FirstPassing(id) ==
    SetMin({k \in 1 .. Len(stream) : stream[k].line.geonames_id = id /\ Passes(k)})

OnePerId ==
    /\ \A i, j \in 1 .. Len(places) :
           places[i].geonames_id = places[j].geonames_id => i = j
    /\ geoNamesLookup = {places[i].geonames_id : i \in 1 .. Len(places)}

\* C5 as claimed: places holds at most one entry per external id, the seen
\* set holds exactly their ids, and the entry of an id is the one built from
\* the first line of the stream with that id.
C5_FirstOccurrenceWins ==
    /\ OnePerId
    /\ \A i \in 1 .. Len(places) :
           /\ Passes(FirstOccurrence(places[i].geonames_id))
           /\ places[i] = Built(FirstOccurrence(places[i].geonames_id))

\* C5 as amended: the entry of an id is the one built from the first line
\* with that id that passes the filter and the resolver.
C5_FirstAcceptedWins ==
    /\ OnePerId
    /\ \A i \in 1 .. Len(places) : places[i] = Built(FirstPassing(places[i].geonames_id))
    /\ \A k \in 1 .. Len(stream) : Passes(k) => stream[k].line.geonames_id \in geoNamesLookup

C5_Witness ==
    /\ Len(stream) = 3
    /\ Len(places) = 1
    /\ \A k \in 1 .. 3 : stream[k].line.geonames_id = 1
    /\ ~Passes(1) /\ Passes(2) /\ Passes(3)

\* C1 as stated: when the store rejects the statement of a record inside a
\* stage, the stage goes on, so that once the stage has returned every later
\* record of its batch has been handed to the store.
C1_LaterRecordsHanded ==
    (stage.done /\ stage.errAt > 0) =>
        \A j \in stage.errAt + 1 .. StageSize(pc, refs, places, env.postal) :
            j \in stage.reached

\* C1, amended: the rejected statement ends the stage.  The error is caught
\* after the loop, the records handed to the store are exactly those up to
\* the rejected one, and the connection is released once.
C1_ErrorEndsStage ==
    stage.errAt > 0 =>
        /\ stage.done
        /\ stage.caught
        /\ stage.reached = 1 .. stage.errAt
        /\ stage.connection = "released"
        /\ stage.releases = 1

\* a stage the store stopped with records of its batch still to come
C1_Witness ==
    /\ stage.done
    /\ stage.errAt > 0
    /\ stage.errAt < StageSize(pc, refs, places, env.postal)
    /\ pc \in {"primary", "alt", "postal"}

\* C2: a reference feed initGazetteer cannot read makes the run end with a
\* failure exit before any statement that writes is issued to the store.
C2_FeedFailureAborts ==
    env.failed # "none" => (~wrote /\ pc # "exit0")

\* C3: a second run of the full pipeline on the same inputs leaves the place
\* rows and the postal rows as the first run left them.
C3_RerunIdempotent ==
    (/\ run = 2
     /\ doList = <<"all">>
     /\ env.failed = "none"
     /\ env.errorsLeft = MaxStoreErrors)
        => /\ gazetteer = firstRun.gazetteer
           /\ gazetteer_postal = firstRun.gazetteer_postal

AllIds ==
    [gazetteer |-> Ids(gazetteer), gazetteer_countries |-> Ids(gazetteer_countries),
     gazetteer_admin1 |-> Ids(gazetteer_admin[1]),
     gazetteer_admin2 |-> Ids(gazetteer_admin[2]),
     gazetteer_alt_names |-> Ids(gazetteer_alt_names),
     gazetteer_postal |-> Ids(gazetteer_postal)]

\* C4: no step of any stage, in a first run or a later one, removes a row:
\* every id a table holds before the step it holds after it.
C4_NoRowDeleted ==
    [][\A t \in DOMAIN AllIds : AllIds[t] \subseteq AllIds'[t]]_vars

\* a later run has written a place over the row the first run stored
C4_Witness ==
    /\ run = 2
    /\ pc = "primary"
    /\ stage.done
    /\ stage.errAt = 0
    /\ stage.index > 0
    /\ firstRun.gazetteer # <<>>
    /\ Ids(firstRun.gazetteer) \subseteq Ids(gazetteer)

TzSpans(lat, lon) ==
    {k \in 1 .. Len(Spans) : TzRowsInBox(lat, lon, Spans[k]) # {}}

\* C11 as stated: when the entities inside the box of at least one of the
\* four widths disagree on timezone, the proximity lookup yields unresolved,
\* also when the entities of a narrower box all agree.
C11_AnyWidthDisagrees ==
    (dbCall.called /\ \E k \in 1 .. Len(Spans) : BoxDisagrees(dbCall.lat, dbCall.lon, Spans[k]))
        => dbCall.timezone = NoTz

\* C11, amended: the narrowest box that holds an entity with a timezone
\* decides.  When its entities disagree the lookup yields unresolved; when
\* they agree the lookup yields their timezone, whatever the wider boxes
\* hold; when no box holds such an entity the lookup yields unresolved.
C11_NarrowestDecides ==
    dbCall.called =>
        LET ks == TzSpans(dbCall.lat, dbCall.lon)
        IN  IF ks = {} THEN dbCall.timezone = NoTz
            ELSE LET span == Spans[SetMin(ks)]
                 IN  IF BoxDisagrees(dbCall.lat, dbCall.lon, span)
                     THEN dbCall.timezone = NoTz
                     ELSE \A i \in TzRowsInBox(dbCall.lat, dbCall.lon, span) :
                              dbCall.timezone = gazetteer[i].timezone

\* a lookup that resolved from a narrow box although a wider box disagrees
C11_Witness ==
    /\ dbCall.called
    /\ dbCall.timezone # NoTz
    /\ Len(dbCall.queried) < Len(Spans)
    /\ \E k \in 1 .. Len(Spans) : BoxDisagrees(dbCall.lat, dbCall.lon, Spans[k])

\* C12: processPlaceNames never throws, whatever city, county, state and
\* country readGeoData hands to it from a line of any number of columns: it
\* returns a ProcessedNames value or null.
C12_NeverThrows ==
    \A k \in DOMAIN stream : ~stream[k].threw

\* the three-letter codes of the reference data
ResolvedCodes == {r.iso3 : r \in Range(CountryInfo)}

\* at most two characters followed by '?'
FallbackCodes == {c \o "?" : c \in {"", "US", "CA", "XX"}}

\* C13: every place row handed to the store, authoritative or synthetic, has
\* a non-empty country: a resolved three-letter code or, when the code cannot
\* be resolved, at most two characters followed by '?'.
C13_CountryNeverEmpty ==
    \A i \in DOMAIN gazetteer :
        gazetteer[i].country \in ResolvedCodes \cup FallbackCodes

\* key, rank and timezone of an accepted place, with the id of its record
Canonical(loc) ==
    [geonames_id |-> loc.geonames_id, key_name |-> loc.key_name, rank |-> loc.rank,
     timezone |-> loc.timezone]

\* C14: a record accepted in two runs of the pipeline over the same input
\* files is built with the same key, the same rank and the same timezone in
\* both: what a later run accepts is what the first run accepted, and at its
\* exit it has accepted all of it.
C14_SameCanonicalPlace ==
    run >= 2 =>
        /\ {Canonical(places[i]) : i \in DOMAIN places}
               \subseteq {Canonical(firstRun.places[i]) : i \in DOMAIN firstRun.places}
        /\ pc = "exit0" =>
               {Canonical(places[i]) : i \in DOMAIN places}
                   = {Canonical(firstRun.places[i]) : i \in DOMAIN firstRun.places}

\* a second run that has rebuilt a place whose timezone came from the grid
C14_Witness ==
    /\ run = 2
    /\ pc = "exit0"
    /\ \E i \in DOMAIN places :
           /\ places[i].geonames_id = 7
           /\ places[i].timezone = "America/Chicago"
    /\ gazetteer # firstRun.gazetteer

\* the stored place a postal row names as its owner
Owner(p) == gazetteer[p.gazetteer_id]

\* the place lies where the first SELECT of processPostalCodes looks for the
\* row: same country, same admin1, within the tolerance of 0.25 degrees
AtHome(o, p) ==
    /\ o.country = Lookup(LoadedRefs.code2ToCode3, p.country)
    /\ o.admin1 = p.admin1
    /\ Abs(p.latitude - o.latitude) < 25
    /\ Abs(p.longitude - o.longitude) < 25

Synthetic(o) == o.source = "GEOZ" /\ o.geonames_id = 0

\* the iteration that had no match inserted its place before the postal row
SyntheticFirst ==
    (lastPostal.writes /\ lastPostal.copies) =>
        /\ ~lastPostal.matched
        /\ lastPostal.gazetteer_id = Len(gazetteer)
        /\ Synthetic(gazetteer[Len(gazetteer)])

\* C15 as stated: every postal row written carries a non-zero owner place id,
\* the id of an existing place of the same name, country and admin1 within
\* the tolerance, or else of a synthetic place (GEOZ, external id 0) inserted
\* before the postal row in the same iteration.
C15_OwnerSameName ==
    /\ SyntheticFirst
    /\ \A i \in DOMAIN gazetteer_postal :
           LET p == gazetteer_postal[i]
           IN  /\ p.gazetteer_id # 0
               /\ p.gazetteer_id \in DOMAIN gazetteer
               /\ \/ NameLike(Owner(p).name, p.name) /\ AtHome(Owner(p), p)
                  \/ Synthetic(Owner(p))

\* C15, amended: the existing place is matched by its own name or, when no
\* place of that name is found, by a stored alternate name of it.
C15_OwnerMatched ==
    /\ SyntheticFirst
    /\ \A i \in DOMAIN gazetteer_postal :
           LET p == gazetteer_postal[i]
           IN  /\ p.gazetteer_id # 0
               /\ p.gazetteer_id \in DOMAIN gazetteer
               /\ \/ NameLike(Owner(p).name, p.name) /\ AtHome(Owner(p), p)
                  \/ /\ AtHome(Owner(p), p)
                     /\ \E a \in Range(gazetteer_alt_names) :
                            /\ NameLike(a.name, p.name)
                            /\ a.geonames_orig_id = Owner(p).geonames_id
                  \/ Synthetic(Owner(p))

\* a postal row owned by a place found through its alternate name, and a
\* store that also holds a synthetic place
C15_Witness ==
    /\ \E i \in DOMAIN gazetteer_postal :
           /\ gazetteer_postal[i].name = "Upper Alton"
           /\ Owner(gazetteer_postal[i]).name = "Alton"
    /\ lastPostal.writes /\ lastPostal.matched

\* an iteration that inserted a synthetic place and then its postal row
C15_SyntheticWritten ==
    /\ lastPostal.writes /\ lastPostal.copies
    /\ \E i \in DOMAIN gazetteer_postal :
           gazetteer_postal[i].gazetteer_id = Len(gazetteer)

\* the table an alternate-name row of the given type points into
OwnerTable(type) ==
    CASE type = "C" -> gazetteer_countries
      [] type = "1" -> gazetteer_admin[1]
      [] type = "2" -> gazetteer_admin[2]
      [] OTHER -> gazetteer

\* C16: processAltNames writes an alternate-name row only if the canonical
\* key of the alternate name differs from the canonical key of the name of
\* the entity that owns it.
C16_AltKeyDiffers ==
    \A i \in DOMAIN gazetteer_alt_names :
        LET a == gazetteer_alt_names[i]
        IN  a.key_name # makeKey(OwnerTable(a.type)[a.gazetteer_id].name)

\* C17: when the download fails and a non-empty cached copy exists the call
\* resolves, the cached file is as it was and no '.tmp' file remains; when no
\* cached copy exists the call rejects.
C17_FailoverToCache ==
    (fetch.pc = "done" /\ fetch.failed) =>
        IF fetch.stats.exists
        THEN /\ fetch.outcome = "resolved"
             /\ disk.file = fetch.stats
             /\ ~disk.tmp.exists
        ELSE fetch.outcome = "rejected"

\* C18: whenever the call resolves for a request that names an unzipPath,
\* the extracted file exists and its modification time is that of the
\* archive, never more than 1 ms older.
C18_ExtractedMatchesArchive ==
    (fetch.pc = "done" /\ fetch.outcome = "resolved" /\ fetch.unzipPath) =>
        /\ disk.unzipped.exists
        /\ disk.unzipped.mtimeMs >= disk.file.mtimeMs - 1

\* true when simplify(candidate) starts with simplify(target)
SimplifiedPrefix(target, candidate) ==
    LET t == simplify(target)
        c == simplify(candidate)
    IN  Len(t) <= Len(c) /\ \A i \in 1 .. Len(t) : c[i] = t[i]

\* C19: closeMatchForCity(target, candidate) is true exactly when
\* simplify(candidate) starts with simplify(target), for all strings, the
\* empty string included.
C19_MatchIffPrefix ==
    nameCall.fn = "closeMatchForCity" =>
        (nameCall.result <=> SimplifiedPrefix(nameCall.args[1], nameCall.args[2]))

\* C19 as the code has it: for a non-empty target and a non-empty candidate
\* closeMatchForCity is true exactly when simplify(candidate) starts with
\* simplify(target), also when a simplified form is empty; when the target or
\* the candidate is the empty string it is false.
C19_NonEmptyMatchIffPrefix ==
    nameCall.fn = "closeMatchForCity" =>
        IF nameCall.args[1] = <<>> \/ nameCall.args[2] = <<>>
        THEN nameCall.result = FALSE
        ELSE nameCall.result <=> SimplifiedPrefix(nameCall.args[1], nameCall.args[2])

\* a non-empty target whose simplified form is empty matches a candidate
C19_Witness ==
    /\ nameCall.fn = "closeMatchForCity"
    /\ nameCall.args[1] # <<>>
    /\ simplify(nameCall.args[1]) = <<>>
    /\ simplify(nameCall.args[2]) # <<>>
    /\ nameCall.result = TRUE

\* the positions i at which the name reads '<rest>, <article>': the rest up
\* to i - 1, a comma and a space, an article that starts with a word
\* character; neither part has a comma followed by a word or an apostrophe
InvertedAt(name) ==
    {i \in 2 .. Len(name) - 2 :
        /\ name[i] = "," /\ name[i + 1] = " " /\ IsWord(name[i + 2])
        /\ \A j \in 1 .. Len(name) : name[j] # "'"
        /\ \A j \in 2 .. Len(name) - 2 :
              (name[j] = "," /\ name[j + 1] = " " /\ IsWord(name[j + 2])) => j = i}

\* the article with its first letter in upper case
Article(name, i) == <<ToUpper(name[i + 2])>> \o SubSeq(name, i + 3, Len(name))

\* a name with no comma that a space and a word character follow
NotInverted(name) ==
    \A i \in 2 .. Len(name) - 2 :
        ~(name[i] = "," /\ name[i + 1] = " " /\ IsWord(name[i + 2]))

\* C20: for '<rest>, <article>' fixRearrangedName returns '<article> <rest>'
\* as the name and the article as the variant; for a name that matches
\* neither comma pattern it returns the name unchanged with an empty variant.
C20_VariantIsArticle ==
    nameCall.fn = "fixRearrangedName" =>
        LET name == nameCall.args[1]
        IN  /\ \A i \in InvertedAt(name) :
                  /\ nameCall.result.name
                        = Article(name, i) \o <<" ">> \o SubSeq(name, 1, i - 1)
                  /\ nameCall.result.variant
                        \in {Article(name, i), SubSeq(name, i + 2, Len(name))}
            /\ NotInverted(name) =>
                  nameCall.result = [name |-> name, variant |-> NoVariant]

\* C20 as the code has it: for '<rest>, <article>' fixRearrangedName returns
\* '<article> <rest>' as the name and the rest, the name without its article,
\* as the variant; for a name that matches neither comma pattern it returns
\* the name unchanged with an empty variant.
C20_VariantIsRest ==
    nameCall.fn = "fixRearrangedName" =>
        LET name == nameCall.args[1]
        IN  /\ \A i \in InvertedAt(name) :
                  /\ nameCall.result.name
                        = Article(name, i) \o <<" ">> \o SubSeq(name, 1, i - 1)
                  /\ nameCall.result.variant = SubSeq(name, 1, i - 1)
            /\ NotInverted(name) =>
                  nameCall.result = [name |-> name, variant |-> NoVariant]

\* 'Mount Pleasant, The' comes back as 'The Mount Pleasant' with the
\* variant 'Mount Pleasant'
C20_Witness ==
    /\ nameCall.fn = "fixRearrangedName"
    /\ nameCall.args[1] = <<"M", "o", "u", "n", "t", " ", "P", "l", "e", "a", "s", "a", "n", "t", ",", " ", "T", "h", "e">>
    /\ nameCall.result.name = <<"T", "h", "e", " ", "M", "o", "u", "n", "t", " ", "P", "l", "e", "a", "s", "a", "n", "t">>
    /\ nameCall.result.variant = <<"M", "o", "u", "n", "t", " ", "P", "l", "e", "a", "s", "a", "n", "t">>

\* the turns of the places loop whose statement found or made the row
StatementsFor(row) ==
    {k \in DOMAIN issued : /\ ~Falsy(issued[k].timezone)
                           /\ issued[k].geonames_id = row.geonames_id
                           /\ issued[k].source = row.source}

\* the location that made the row, and the last one that hit it
MadeBy(row) == issued[SetMin(StatementsFor(row))]
LastHitBy(row) == issued[SetMax(StatementsFor(row))]

\* the fields of a row that are those of the location loc
KeptFrom(row, loc) ==
    /\ row.name = loc.name /\ row.key_name = loc.key_name
    /\ row.admin2 = loc.admin2 /\ row.admin1 = loc.admin1 /\ row.country = loc.country
    /\ row.feature_code = loc.feature_code
    /\ row.source = loc.source /\ row.geonames_id = loc.geonames_id

RefreshedFrom(row, loc) ==
    /\ row.latitude = loc.latitude /\ row.longitude = loc.longitude
    /\ row.population = loc.population /\ row.rank = loc.rank
    /\ row.timezone = loc.timezone

\* C21: when a place upsert hits an existing row, only coordinates,
\* population, rank and timezone are refreshed; name, key, admin2, admin1,
\* country, feature code, source, external id and elevation keep the value
\* the row was made with.
C21_ElevationKept ==
    \A i \in DOMAIN gazetteer :
        /\ RefreshedFrom(gazetteer[i], LastHitBy(gazetteer[i]))
        /\ KeptFrom(gazetteer[i], MadeBy(gazetteer[i]))
        /\ gazetteer[i].elevation = MadeBy(gazetteer[i]).elevation

\* C21 as the code has it: when a place upsert hits an existing row,
\* coordinates, elevation, population, rank and timezone are refreshed;
\* name, key, admin2, admin1, country, feature code, source and external id
\* keep the value the row was made with.
C21_ElevationRefreshed ==
    \A i \in DOMAIN gazetteer :
        /\ RefreshedFrom(gazetteer[i], LastHitBy(gazetteer[i]))
        /\ KeptFrom(gazetteer[i], MadeBy(gazetteer[i]))
        /\ gazetteer[i].elevation = LastHitBy(gazetteer[i]).elevation

\* a row was hit by a location of another name, admin1, feature code,
\* elevation, population, rank, timezone and position
C21_Witness ==
    \E i \in DOMAIN gazetteer :
        LET made == MadeBy(gazetteer[i])
            last == LastHitBy(gazetteer[i])
        IN  /\ made.name # last.name /\ made.admin1 # last.admin1
            /\ made.feature_code # last.feature_code
            /\ made.elevation # last.elevation /\ made.population # last.population
            /\ made.rank # last.rank /\ made.timezone # last.timezone
            /\ made.latitude # last.latitude
            /\ gazetteer[i].name = made.name
            /\ gazetteer[i].timezone = last.timezone

\* the tables that hold the external id, as positions of an order of probing
Holders(order, gid) == {i \in DOMAIN order : \E k \in DOMAIN order[i] : order[i][k].geonames_id = gid}

\* the row is owned by the first holder of the order and tagged with its code
OwnedByFirst(row, order, codes) ==
    /\ Holders(order, row.geonames_orig_id) # {}
    /\ LET i == SetMin(Holders(order, row.geonames_orig_id))
       IN  /\ row.type = codes[i]
           /\ \E k \in DOMAIN order[i] :
                 /\ order[i][k].geonames_id = row.geonames_orig_id
                 /\ order[i][k].id = row.gazetteer_id

\* C22: the owner of an alternate name is found by probing place, admin2,
\* admin1, country in that order; the first table holding the original
\* external id wins and gives its type code (P, 2, 1, C).
C22_PlaceFirst ==
    \A n \in DOMAIN gazetteer_alt_names :
        OwnedByFirst(gazetteer_alt_names[n],
                     <<gazetteer, gazetteer_admin[2], gazetteer_admin[1], gazetteer_countries>>,
                     <<"P", "2", "1", "C">>)

\* C22 as the code has it: the probe goes country, admin1, admin2, place;
\* the first table in that order holding the original external id wins and
\* gives its type code (C, 1, 2, P).
C22_CountryFirst ==
    \A n \in DOMAIN gazetteer_alt_names :
        OwnedByFirst(gazetteer_alt_names[n],
                     <<gazetteer_countries, gazetteer_admin[1], gazetteer_admin[2], gazetteer>>,
                     <<"C", "1", "2", "P">>)

\* an alternate name whose original id is held by a place and by a country
\* is written as a name of the country
C22_Witness ==
    \E n \in DOMAIN gazetteer_alt_names :
        LET row == gazetteer_alt_names[n]
        IN  /\ \E k \in DOMAIN gazetteer : gazetteer[k].geonames_id = row.geonames_orig_id
            /\ \E k \in DOMAIN gazetteer_countries :
                  gazetteer_countries[k].geonames_id = row.geonames_orig_id
            /\ row.type = "C"

\* the key of the per-country tables for the codes as the record gives them
AdminKey(args) ==
    LET code2 == Code2Of(args[4], NameRefs)
    IN  [state |-> code2 \o "." \o args[3],
         county |-> code2 \o "." \o args[3] \o "." \o args[2]]

\* C23: a numeric admin1 code with an entry 'country.admin1' is returned as
\* its name, a numeric admin2 code with an entry
\* 'country.admin1code.admin2code' is returned as its name whether admin1
\* was numeric or not, and a numeric code without an entry is returned
\* unchanged.
C23_AdminCodesResolved ==
    (nameCall.fn = "processPlaceNames" /\ nameCall.result # Null) =>
        LET county == nameCall.args[2]
            state == nameCall.args[3]
            key == AdminKey(nameCall.args)
        IN  /\ state \in NumericCodes =>
                  nameCall.result.state =
                      IF key.state \in DOMAIN NameRefs.states
                      THEN NameRefs.states[key.state] ELSE state
            /\ county \in NumericCodes =>
                  nameCall.result.county =
                      IF key.county \in DOMAIN NameRefs.counties
                      THEN NameRefs.counties[key.county] ELSE county

\* the line and the level that entry i of places was built from
BuiltFrom(i) == stream[FirstPassing(places[i].geonames_id)]

BaseRank(l, level) == IF l.featureClass = "T" THEN 0 ELSE IF level = 0 THEN 2 ELSE 1

LargeCity(l) ==
    \/ l.population >= 1000000
    \/ (l.featureCode = "PPLC" /\ l.population > 500000)

\* C24: the rank of every accepted record is its base (0 terrain, 2 first
\* file, 1 broader file) plus 2 for PPLC, plus 1 for PPLA, minus 1 for zero
\* population, plus 1 for a large city.
C24_RankOfEveryRecord ==
    \A i \in DOMAIN places :
        LET l == BuiltFrom(i).line
        IN  places[i].rank = BaseRank(l, BuiltFrom(i).level)
                             + (IF l.featureCode = "PPLC" THEN 2 ELSE 0)
                             + (IF l.featureCode = "PPLA" THEN 1 ELSE 0)
                             - (IF l.population = 0 THEN 1 ELSE 0)
                             + (IF LargeCity(l) THEN 1 ELSE 0)

\* C24 as the code has it: the rank of a terrain feature is its base, 0; the
\* rank of a populated place is its base plus 2 for PPLC, otherwise plus 1
\* for PPLA, otherwise minus 1 for zero population, and plus 1 for a large
\* city.
C24_RankOfPopulatedPlace ==
    \A i \in DOMAIN places :
        LET l == BuiltFrom(i).line
            base == BaseRank(l, BuiltFrom(i).level)
        IN  IF l.featureClass = "T" THEN places[i].rank = 0
            ELSE places[i].rank = base
                                  + (IF l.featureCode = "PPLC" THEN 2
                                     ELSE IF l.featureCode = "PPLA" THEN 1
                                     ELSE IF l.population = 0 THEN -1 ELSE 0)
                                  + (IF LargeCity(l) THEN 1 ELSE 0)

\* a mountain of no population, a capital of more than 500,000 and a city of
\* more than a million have been accepted
C24_Witness ==
    /\ \E i \in DOMAIN places :
          /\ BuiltFrom(i).line.featureClass = "T" /\ BuiltFrom(i).line.population = 0
          /\ places[i].rank = 0
    /\ \E i \in DOMAIN places :
          /\ BuiltFrom(i).line.featureCode = "PPLC" /\ BuiltFrom(i).level = 0
          /\ places[i].rank = 5
    /\ \E i \in DOMAIN places :
          /\ BuiltFrom(i).line.population >= 1000000 /\ BuiltFrom(i).level = 1
          /\ places[i].rank = 2

\* the condition of the claim for a line of the file read at the level
ClaimAdmits(l, level) ==
    /\ l.name # "" /\ l.name \notin NamesWithComma
    /\ l.admin1 # "0Z"
    /\ l.featureClass \in {"P", "T"}
    /\ l.featureClass = "P" =>
          /\ (l.population > 1000 \/ l.featureCode \in CapitalCodes)
          /\ level > 0 => l.name \notin NamesWithBracket
    /\ l.featureClass = "T" =>
          /\ l.featureCode \in TerrainCodes
          /\ l.featureCode \in {"MT", "PK"} => l.elevation >= 600

\* whether the resolver accepts the names of line k
Resolves(k) ==
    processPlaceNames(stream[k].line.name, stream[k].line.admin2, stream[k].line.admin1,
                      stream[k].line.countryCode, refs) \notin {Null, Thrown}

\* C25: the filter of readGeoData admits a record not seen before exactly
\* when its name is not empty and has no comma, admin1 is not '0Z', the class
\* is P or T, a class-P record has population > 1000 or one of the codes
\* PPLA, PPLA2, PPLA3, PPLC, PPLG (and no bracket or slash in the broader
\* file), and a class-T record has one of the terrain codes and, for MT or
\* PK, an elevation of at least 600.
C25_FilterAdmits ==
    /\ \A i \in DOMAIN places : ClaimAdmits(BuiltFrom(i).line, BuiltFrom(i).level)
    /\ \A k \in DOMAIN stream :
           (ClaimAdmits(stream[k].line, stream[k].level) /\ Resolves(k))
               => stream[k].line.geonames_id \in geoNamesLookup

\* C26: each stage that acquires a pool connection releases it exactly once
\* on every path, and releases nothing when getConnection failed.
C26_ReleasedOnce ==
    stage.name \in {"primary", "alt", "postal", "legacy"} =>
        /\ ~stage.done => stage.releases = 0
        /\ stage.done =>
              \/ stage.connection = "released" /\ stage.releases = 1
              \/ stage.connection = "undefined" /\ stage.releases = 0

\* a stage whose loop was ended by a store error has released its connection
C26_Witness ==
    /\ stage.name \in {"primary", "alt", "postal", "legacy"}
    /\ stage.done /\ stage.caught /\ stage.errAt > 0
    /\ stage.connection = "released" /\ stage.releases = 1

\* the selected stages after the stage at p, in the order of main
LaterSelected(p) == {i \in StageIndex(p) + 1 .. Len(StageOrder) : shouldDo(StageOrder[i])}

\* C27: a store error thrown inside a stage stays in the stage: main goes on
\* to the next selected stage in the order main, alt, postal, legacy, zones,
\* whatever the order of the --do list, and exits with 0 after the last;
\* exit 1 follows only the tool check, the shapes step, the geo-data fetch
\* and readGeoData.
C27_ErrorStaysInStage ==
    [][/\ (pc \in {"primary", "alt", "postal", "legacy", "zones"} /\ pc' # pc) =>
             pc' = IF LaterSelected(pc) = {} THEN "exit0"
                   ELSE StagePc(StageOrder[SetMin(LaterSelected(pc))])
       /\ (pc' = "exit1" /\ pc # "exit1") =>
             pc \in {"checkUnzip", "shapes", "getGeoData", "read0", "read1"}]_vars

\* the postal stage has started after a store error in the main stage, under
\* a --do list that names postal first
C27_Witness ==
    /\ doList = <<"postal", "main">>
    /\ pc = "postal" /\ ~stage.done
    /\ run = 1
    /\ env.errorsLeft < MaxStoreErrors

\* C28: no place row and no postal row is written with an empty or null
\* timezone: a place without one is skipped, a postal record without one
\* makes neither a synthetic place nor a postal row.
C28_TimezoneNeverEmpty ==
    /\ \A i \in DOMAIN gazetteer : gazetteer[i].timezone \notin {NoTz, Undef, ""}
    /\ \A i \in DOMAIN gazetteer_postal : gazetteer_postal[i].timezone \notin {NoTz, Undef, ""}
    /\ (lastPostal.line > 0 /\ lastPostal.timezone \in {NoTz, Undef, ""}) => ~lastPostal.writes

\* the places loop is over: it has skipped a place without a timezone and
\* written another
C28_Witness ==
    /\ pc = "primary" /\ stage.done /\ ~stage.caught
    /\ \E i \in DOMAIN places :
          /\ places[i].timezone \in {NoTz, Undef, ""}
          /\ \A k \in DOMAIN gazetteer : gazetteer[k].geonames_id # places[i].geonames_id
    /\ \E i \in DOMAIN places :
          \E k \in DOMAIN gazetteer : gazetteer[k].geonames_id = places[i].geonames_id

\* the postal loop has just passed a record without a timezone
C28_PostalSkipped ==
    /\ pc = "postal" /\ lastPostal.line > 0
    /\ lastPostal.timezone \in {NoTz, Undef, ""}
    /\ ~lastPostal.writes

\* C29: presortTimezones and findTimezone only access cells with 0 <= x < 24
\* and 0 <= y < 12 and never raise, for every bounding box and every query
\* point, latitude 90 included.
C29_CellsInGrid ==
    /\ gridPc # "thrown"
    /\ tzCall.called =>
           /\ Floor15(tzCall.lon % 36000) \in GridXs
           /\ Floor15(tzCall.lat + 9000) \in GridYs

\* C30: once a call of getPossiblyCachedFile has resolved or rejected, on
\* the success path and on the path that falls back to the cached copy, the
\* interval timer the call started is no longer active.
C30_TimerCleared ==
    fetch.pc = "done" => ~fetch.autoTick

====
